---------------------------- MODULE Spec2Model ----------------------------
(***************************************************************************)
(* A model of the Polymarket fetch client (src/src/services/               *)
(* polymarket_client.py), its domain model (src/src/models/market.py) and  *)
(* the HTTP routes built on it (src/src/api/routes/markets.py).            *)
(*                                                                         *)
(* JSON values are tagged records.  Numbers are fixed-point: the integer n *)
(* stands for n/100, so 65 is 0.65, 100 is 1.0 and 50000 is 500.0.         *)
(***************************************************************************)
EXTENDS Integers, Sequences, FiniteSets, TLC

VARIABLES
    CLOB_AVAILABLE,     \* the module flag: py_clob_client could be imported
    private_key,        \* the private_key argument given to __init__
    self,               \* the PolymarketClient instance and the objects it owns
    caller,             \* the code using the instance: the fetch awaiting its
                        \* upstream answer, the __aexit__ awaiting aclose(),
                        \* the async-with blocks entered, the values held
    last                \* the last operation: its arguments, the upstream
                        \* answer it was given and how it ended

vars == <<CLOB_AVAILABLE, private_key, self, caller, last>>

(***************************************************************************)
(* Bounds of the model.                                                    *)
(***************************************************************************)
MaxTransports == 2      \* AsyncClients one client instance allocates
MaxLen == 2             \* longest upstream list
MaxLimit == 2           \* largest limit argument
MaxHeld == 2            \* values a caller keeps from earlier fetches

(***************************************************************************)
(* JSON values and the Python primitives the normalizer applies to them.   *)
(***************************************************************************)
JNull == [k |-> "null"]
JBool(b) == [k |-> "bool", b |-> b]
JNum(n) == [k |-> "num", n |-> n]
JStr(s) == [k |-> "str", s |-> s]
JArr(a) == [k |-> "arr", items |-> a]
\* A JSON number beyond the fixed-point range, written m * 10^e: 1700000000000
\* is JDec(17, 11).  It is a Python int or float like any other number.
JDec(m, e) == [k |-> "dec", m |-> m, e |-> e]
JObj(f) == [k |-> "obj", f |-> f]

\* How a call ends: it returns v, or raises an exception of a type.
Ok(v) == [ok |-> TRUE, v |-> v]
Raise(type, msg) == [ok |-> FALSE, exc |-> [type |-> type, msg |-> msg]]

\* The outcome r of a fetch, with the number n of upstream requests it issued.
Sends(n, r) == [sent |-> n] @@ r

\* The decimal texts of the model's universe and the numbers they denote.
Numerals ==
    ("0" :> 0) @@ ("0.35" :> 35) @@ ("0.65" :> 65) @@ ("1" :> 100) @@
    ("1.5" :> 150) @@ ("-0.1" :> -10) @@ ("-5" :> -500) @@ ("7" :> 700) @@
    ("499.99" :> 49999) @@ ("500" :> 50000)

\* The JSON array texts of the model's universe and what they decode to.
JsonArrayTexts ==
    ("[\"0.65\",\"0.35\"]" :> JArr(<<JStr("0.65"), JStr("0.35")>>)) @@
    ("[\"1.5\",\"-0.1\"]" :> JArr(<<JStr("1.5"), JStr("-0.1")>>)) @@
    ("[\"Up\",\"Down\"]" :> JArr(<<JStr("Up"), JStr("Down")>>)) @@
    ("[1,2]" :> JArr(<<JNum(100), JNum(200)>>)) @@
    ("[]" :> JArr(<<>>))

\* The texts of the universe that contain a key as a substring.
TextsWith ==
    ("outcomePrices" :> {"outcomePrices", "no outcomePrices"}) @@
    ("outcomes" :> {"outcomes", "no outcomes"})

\* The characters of the strings of the universe that get iterated.
CharsOf == ("" :> <<>>) @@ ("no" :> <<"n", "o">>)

\* json.loads(s)
JsonLoads(s) ==
    IF s \in DOMAIN JsonArrayTexts THEN Ok(JsonArrayTexts[s])
    ELSE IF s \in DOMAIN Numerals THEN Ok(JNum(Numerals[s]))
    ELSE IF s = "null" THEN Ok(JNull)
    ELSE Raise("JSONDecodeError", "Expecting value")

\* bool(v): Python truthiness
Truthy(v) ==
    CASE v.k = "null" -> FALSE
      [] v.k = "bool" -> v.b
      [] v.k = "num" -> v.n # 0
      [] v.k = "dec" -> v.m # 0
      [] v.k = "str" -> v.s # ""
      [] v.k = "arr" -> Len(v.items) > 0
      [] v.k = "obj" -> DOMAIN v.f # {}

RECURSIVE Pow10(_)
Pow10(k) == IF k = 0 THEN 1 ELSE 10 * Pow10(k - 1)

\* float(v)
PyFloat(v) ==
    CASE v.k = "num" -> Ok(v.n)
      [] v.k = "dec" -> Ok(IF v.e >= -2 THEN v.m * Pow10(v.e + 2)
                           ELSE v.m \div Pow10(-2 - v.e))
      [] v.k = "bool" -> Ok(IF v.b THEN 100 ELSE 0)
      [] v.k = "str" -> IF v.s \in DOMAIN Numerals THEN Ok(Numerals[v.s])
                        ELSE Raise("ValueError", "could not convert string to float")
      [] OTHER -> Raise("TypeError", "float() argument must be a string or a real number")

\* str(v).  A number without a fraction stands for a JSON integer literal,
\* which json reads as an int: str(7) is "7".
PyStr(v) ==
    CASE v.k = "str" -> v.s
      [] v.k = "null" -> "None"
      [] v.k = "bool" -> IF v.b THEN "True" ELSE "False"
      [] v.k = "num" -> IF \E t \in DOMAIN Numerals : Numerals[t] = v.n
                        THEN CHOOSE t \in DOMAIN Numerals : Numerals[t] = v.n
                        ELSE "<number>"
      [] v.k = "dec" -> "<number>"
      [] v.k = "arr" -> "[...]"
      [] v.k = "obj" -> "{...}"

\* The keys of a JSON object, in the order the upstream wrote them.
KeyOrder ==
    <<"id", "conditionId", "condition_id", "question", "description",
      "outcomes", "outcomePrices", "volume", "liquidity", "endDate", "active",
      "slug", "market", "market_id", "asset_id", "assetId", "side", "price",
      "size", "outcome", "timestamp", "maker_address", "makerAddress",
      "taker_address", "takerAddress", "error">>

RECURSIVE KeysFrom(_, _)
KeysFrom(f, i) ==
    IF i > Len(KeyOrder) THEN <<>>
    ELSE (IF KeyOrder[i] \in DOMAIN f THEN <<JStr(KeyOrder[i])>> ELSE <<>>)
         \o KeysFrom(f, i + 1)

RECURSIVE CharsFrom(_, _)
CharsFrom(cs, i) ==
    IF i > Len(cs) THEN <<>> ELSE <<JStr(cs[i])>> \o CharsFrom(cs, i + 1)

\* iter(v): the elements a Python for loop visits, or TypeError
Iter(v) ==
    CASE v.k = "arr" -> Ok(v.items)
      [] v.k = "obj" -> Ok(KeysFrom(v.f, 1))
      [] v.k = "str" -> Ok(CharsFrom(CharsOf[v.s], 1))
      [] OTHER -> Raise("TypeError", "object is not iterable")

\* dict.get(key, default) and key in dict, on a JSON object
Get(d, key, default) == IF key \in DOMAIN d.f THEN d.f[key] ELSE default
Has(d, key) == key \in DOMAIN d.f


(***************************************************************************)
(* Domain model: src/src/models/market.py                                  *)
(***************************************************************************)
WhaleThreshold == 50000     \* 500.0

\* TradeSide(str, Enum)
TradeSide == [BUY |-> "BUY", SELL |-> "SELL"]

\* pydantic's str field: only a string passes
IsStr(v) == v.k = "str"

\* pydantic's list[str] field
IsListOfStr(v) ==
    /\ v.k = "arr"
    /\ \A i \in 1..Len(v.items) : IsStr(v.items[i])

\* The texts pydantic's bool field reads as True and as False
BOOL_TRUE == {"1", "on", "t", "true", "y", "yes"}
BOOL_FALSE == {"0", "off", "f", "false", "n", "no"}

\* str.lower() on the texts of the universe
Lower(s) ==
    CASE s \in {"True", "TRUE"} -> "true"
      [] s \in {"False", "FALSE"} -> "false"
      [] s \in {"On", "ON"} -> "on"
      [] s \in {"Off", "OFF"} -> "off"
      [] s \in {"Yes", "YES"} -> "yes"
      [] s \in {"No", "NO"} -> "no"
      [] s = "T" -> "t"
      [] s = "F" -> "f"
      [] s = "Y" -> "y"
      [] s = "N" -> "n"
      [] s = "Maybe" -> "maybe"
      [] OTHER -> s

\* pydantic's bool field (lax mode): a bool, the numbers 0 and 1, or one of
\* the texts of BOOL_TRUE and BOOL_FALSE in any letter case
IsBoolLike(v) ==
    \/ v.k = "bool"
    \/ v.k = "num" /\ v.n \in {0, 100}
    \/ v.k = "str" /\ Lower(v.s) \in BOOL_TRUE \cup BOOL_FALSE

BoolOf(v) ==
    CASE v.k = "bool" -> v.b
      [] v.k = "num" -> v.n = 100
      [] v.k = "str" -> Lower(v.s) \in BOOL_TRUE

RECURSIVE Texts(_)
Texts(items) ==
    IF items = <<>> THEN <<>> ELSE <<Head(items).s>> \o Texts(Tail(items))

\* Market(...): the field constraints of class Market.  outcome_prices is
\* list[float] with no range constraint; volume and liquidity carry ge=0.
Market(kw) ==
    IF ~IsStr(kw.question) THEN Raise("ValidationError", "question")
    ELSE IF ~IsStr(kw.description) THEN Raise("ValidationError", "description")
    ELSE IF ~IsListOfStr(kw.outcomes) THEN Raise("ValidationError", "outcomes")
    ELSE IF ~(kw.volume >= 0) THEN Raise("ValidationError", "volume")
    ELSE IF ~(kw.liquidity >= 0) THEN Raise("ValidationError", "liquidity")
    ELSE IF ~IsBoolLike(kw.active) THEN Raise("ValidationError", "active")
    ELSE IF ~IsStr(kw.slug) THEN Raise("ValidationError", "slug")
    ELSE Ok([id |-> kw.id,
             condition_id |-> kw.condition_id,
             question |-> kw.question.s,
             description |-> kw.description.s,
             outcomes |-> Texts(kw.outcomes.items),
             outcome_prices |-> kw.outcome_prices,
             volume |-> kw.volume,
             liquidity |-> kw.liquidity,
             end_date |-> kw.end_date,
             active |-> BoolOf(kw.active),
             slug |-> kw.slug.s])

\* Outcome(...): price carries ge=0.0, le=1.0.
Outcome(kw) ==
    IF ~IsStr(kw.outcome) THEN Raise("ValidationError", "outcome")
    ELSE IF ~(kw.price >= 0 /\ kw.price <= 100) THEN Raise("ValidationError", "price")
    ELSE Ok([outcome |-> kw.outcome.s, price |-> kw.price])

\* Trade(...) with the price bounds exclusive (gt=0.0, lt=1.0)
Trade_ExclusiveBounds(kw) ==
    IF ~(kw.price > 0 /\ kw.price < 100) THEN Raise("ValidationError", "price")
    ELSE IF ~(kw.size >= 0) THEN Raise("ValidationError", "size")
    ELSE Ok([id |-> kw.id,
             market_id |-> kw.market_id,
             asset_id |-> kw.asset_id,
             side |-> kw.side,
             price |-> kw.price,
             size |-> kw.size,
             outcome |-> kw.outcome,
             timestamp |-> kw.timestamp,
             maker_address |-> kw.maker_address,
             taker_address |-> kw.taker_address])

\* Trade(...): price carries ge=0.0, le=1.0 and size carries ge=0.
Trade(kw) ==
    IF ~(kw.price >= 0 /\ kw.price <= 100) THEN Raise("ValidationError", "price")
    ELSE IF ~(kw.size >= 0) THEN Raise("ValidationError", "size")
    ELSE Ok([id |-> kw.id,
             market_id |-> kw.market_id,
             asset_id |-> kw.asset_id,
             side |-> kw.side,
             price |-> kw.price,
             size |-> kw.size,
             outcome |-> kw.outcome,
             timestamp |-> kw.timestamp,
             maker_address |-> kw.maker_address,
             taker_address |-> kw.taker_address])

\* is_whale_trade as its docstring words it: "whale" as > $500
is_whale_trade_Above(t) == t.size > WhaleThreshold

\* Trade.is_whale_trade
is_whale_trade(t) == t.size >= WhaleThreshold

\* The @property names of the class of a value: Market.yes_price and
\* Market.no_price, Trade.is_whale_trade
Properties(value) ==
    IF "question" \in DOMAIN value THEN {"yes_price", "no_price"}
    ELSE {"is_whale_trade"}

\* The names of the universe that start with an underscore
PrivateNames == {"_private"}

\* value.name = v on a Market or Trade.  The classes declare no model_config,
\* so pydantic's defaults apply: the model is not frozen and an assignment to
\* a field is not validated.  A property has no setter; a name that starts
\* with an underscore is taken as a private attribute and changes no field;
\* any other name that is no field of the model is refused.
__setattr__(value, name, v) ==
    IF name \in DOMAIN value THEN Ok([value EXCEPT ![name] = v])
    ELSE IF name \in Properties(value)
    THEN Raise("AttributeError", "property of object has no setter")
    ELSE IF name \in PrivateNames THEN Ok(value)
    ELSE Raise("ValueError", "object has no field")

(***************************************************************************)
(* Response normalizer: PolymarketClient._parse_market / _parse_trade      *)
(***************************************************************************)
RECURSIVE FloatAll(_)
\* [float(p) for p in prices]
FloatAll(items) ==
    IF items = <<>> THEN Ok(<<>>)
    ELSE LET h == PyFloat(Head(items))
             t == FloatAll(Tail(items))
         IN IF ~h.ok THEN h
            ELSE IF ~t.ok THEN t
            ELSE Ok(<<h.v>> \o t.v)

RECURSIVE EmbeddedPrices(_)
\* the loop over data["outcomes"] collecting outcome["price"]
EmbeddedPrices(items) ==
    IF items = <<>> THEN Ok(<<>>)
    ELSE LET o == Head(items)
             h == IF o.k = "obj" /\ Has(o, "price")
                  THEN PyFloat(o.f["price"]) ELSE Ok(0)
             t == EmbeddedPrices(Tail(items))
         IN IF ~h.ok THEN h
            ELSE IF ~t.ok THEN t
            ELSE IF o.k = "obj" /\ Has(o, "price") THEN Ok(<<h.v>> \o t.v)
            ELSE t

\* the outcome_prices block of _parse_market
ParseOutcomePrices(data) ==
    IF Has(data, "outcomePrices")
    THEN LET prices == data.f["outcomePrices"]
             decoded == IF prices.k = "str" THEN JsonLoads(prices.s) ELSE Ok(prices)
             it == IF decoded.ok THEN Iter(decoded.v) ELSE decoded
         IN IF ~it.ok THEN it ELSE FloatAll(it.v)
    ELSE IF Has(data, "outcomes") /\ data.f["outcomes"].k = "arr"
    THEN EmbeddedPrices(data.f["outcomes"].items)
    ELSE Ok(<<>>)

DefaultOutcomes == JArr(<<JStr("Yes"), JStr("No")>>)

\* the outcomes block of _parse_market
ParseOutcomes(data) ==
    IF Has(data, "outcomes")
    THEN LET raw == data.f["outcomes"]
         IN IF raw.k = "str" THEN JsonLoads(raw.s)
            ELSE IF raw.k = "arr" /\ Len(raw.items) > 0 /\ raw.items[1].k = "str"
            THEN Ok(raw)
            ELSE Ok(DefaultOutcomes)
    ELSE Ok(DefaultOutcomes)

\* datetime.fromisoformat(text.replace("Z", "+00:00")) on the universe's texts
IsoTexts ==
    ("2025-12-31T00:00:00Z" :> "2025-12-31T00:00:00+00:00") @@
    ("2025-12-31T00:00:00+00:00" :> "2025-12-31T00:00:00+00:00")

\* the end_date block of _parse_market: every failure leaves None
ParseEndDate(data) ==
    LET v == Get(data, "endDate", JNull)
    IN IF Truthy(v) /\ v.k = "str" /\ v.s \in DOMAIN IsoTexts
       THEN JStr(IsoTexts[v.s]) ELSE JNull

\* float(data.get(key, 0)): the conversion without the `or 0`
FloatOrZero_NoDefault(data, key) == PyFloat(Get(data, key, JNum(0)))

\* float(data.get(key, 0) or 0)
FloatOrZero(data, key) ==
    LET v == Get(data, key, JNum(0))
    IN PyFloat(IF Truthy(v) THEN v ELSE JNum(0))

\* key in data, for data a JSON list (membership) or text (substring)
Mentions(data, key) ==
    CASE data.k = "arr" -> \E i \in 1..Len(data.items) : data.items[i] = JStr(key)
      [] data.k = "str" -> data.s \in TextsWith[key]
      [] OTHER -> FALSE

\* A list or a text passes the `in` tests: when it mentions outcomePrices or
\* outcomes the subscript data[...] raises TypeError, and otherwise the first
\* data.get raises AttributeError.  On any other non-object `in` raises.
_parse_market(data) ==
    IF data.k \in {"str", "arr"}
    THEN IF Mentions(data, "outcomePrices") \/ Mentions(data, "outcomes")
         THEN Raise("TypeError",
                    IF data.k = "arr"
                    THEN "list indices must be integers or slices, not str"
                    ELSE "string indices must be integers, not 'str'")
         ELSE Raise("AttributeError", "object has no attribute 'get'")
    ELSE IF data.k # "obj"
    THEN Raise("TypeError", "argument is not iterable")
    ELSE LET outcome_prices == ParseOutcomePrices(data)
             outcomes == ParseOutcomes(data)
             volume == FloatOrZero(data, "volume")
             liquidity == FloatOrZero(data, "liquidity")
         IN IF ~outcome_prices.ok THEN outcome_prices
            ELSE IF ~outcomes.ok THEN outcomes
            ELSE IF ~volume.ok THEN volume
            ELSE IF ~liquidity.ok THEN liquidity
            ELSE Market([
                id |-> PyStr(Get(data, "id", JStr(""))),
                condition_id |->
                    PyStr(Get(data, "conditionId", Get(data, "condition_id", JStr("")))),
                question |-> Get(data, "question", JStr("")),
                description |-> Get(data, "description", JStr("")),
                outcomes |-> outcomes.v,
                outcome_prices |-> outcome_prices.v,
                volume |-> volume.v,
                liquidity |-> liquidity.v,
                end_date |-> ParseEndDate(data),
                active |-> Get(data, "active", JBool(TRUE)),
                slug |-> Get(data, "slug", JStr(""))])

\* str(...).upper() on the side tokens of the universe
Upper(s) ==
    CASE s \in {"buy", "Buy", "BUY"} -> "BUY"
      [] s \in {"sell", "Sell", "SELL"} -> "SELL"
      [] s = "None" -> "NONE"
      [] s = "hold" -> "HOLD"
      [] OTHER -> s

\* ParseSide with the fallback turned round: only SELL yields SELL
ParseSide_FallbackBuy(data) ==
    LET side_str == Upper(PyStr(Get(data, "side", JStr("BUY"))))
    IN IF side_str = "SELL" THEN TradeSide.SELL ELSE TradeSide.BUY

\* the side block of _parse_trade
ParseSide(data) ==
    LET side_str == Upper(PyStr(Get(data, "side", JStr("BUY"))))
    IN IF side_str = "BUY" THEN TradeSide.BUY ELSE TradeSide.SELL

(***************************************************************************)
(* Decimal numbers m * 10^e, for the arithmetic on Unix timestamps.  A      *)
(* decimal is kept normalized: m has no trailing zero, and zero is 0 * 10^0.*)
(***************************************************************************)
RECURSIVE Normalize(_, _)
Normalize(m, e) ==
    IF m = 0 THEN [m |-> 0, e |-> 0]
    ELSE IF m % 10 = 0 THEN Normalize(m \div 10, e + 1)
    ELSE [m |-> m, e |-> e]

RECURSIVE Digits(_)
\* the number of decimal digits of n > 0
Digits(n) == IF n < 10 THEN 1 ELSE 1 + Digits(n \div 10)

Abs(n) == IF n < 0 THEN -n ELSE n

\* |a| < |b| for mantissas ma, mb of la, lb digits: first by the position of
\* the leading digit, then by the digits the two mantissas share
LessAligned(ma, la, ea, mb, lb, eb) ==
    IF la + ea # lb + eb THEN la + ea < lb + eb
    ELSE IF la <= lb
    THEN ma < mb \div Pow10(lb - la) \/ (ma = mb \div Pow10(lb - la) /\ lb > la)
    ELSE ma \div Pow10(la - lb) < mb

LessDigits(ma, ea, mb, eb) == LessAligned(ma, Digits(ma), ea, mb, Digits(mb), eb)

\* |a| < |b| for normalized decimals
LessMag(a, b) ==
    IF b.m = 0 THEN FALSE
    ELSE IF a.m = 0 THEN TRUE
    ELSE LessDigits(Abs(a.m), a.e, Abs(b.m), b.e)

\* a < b and a <= b for normalized decimals
Less(a, b) ==
    IF (a.m < 0) # (b.m < 0) THEN a.m < 0
    ELSE LessMag(IF a.m < 0 THEN b ELSE a, IF a.m < 0 THEN a ELSE b)
LessEq(a, b) == a = b \/ Less(a, b)
Within(d, lo, hi) == LessEq(lo, d) /\ LessEq(d, hi)

\* The number a timestamp field carries, as a decimal.
DecOf(v) ==
    CASE v.k = "num" -> Normalize(v.n, -2)
      [] v.k = "dec" -> Normalize(v.m, v.e)
      [] v.k = "bool" -> Normalize(IF v.b THEN 1 ELSE 0, 0)

\* The bounds of datetime.fromtimestamp, in seconds.  Each is the largest
\* (smallest) decimal with a mantissa below 2^31 that lies within the exact
\* bound, so that the comparison is exact for every such decimal:
\* year 1..9999 is -62135510400 .. 253402300799, localtime() answers up to
\* 67768036191676799 (down to -67768040609740800), and time_t ends at 2^63.
MinDatetime == [m |-> -621355104, e |-> 2]
MaxDatetime == [m |-> 253402300, e |-> 3]
MinLocaltime == [m |-> -677680406, e |-> 8]
MaxLocaltime == [m |-> 677680361, e |-> 8]
MinTimeT == [m |-> -922337203, e |-> 10]
MaxTimeT == [m |-> 922337203, e |-> 10]

\* datetime.now()
Now == [src |-> "now", at |-> "", m |-> 0, e |-> 0]

\* datetime.fromtimestamp(d): the instant d seconds after the epoch, or the
\* exception CPython raises for a value out of range
fromtimestamp(d) ==
    IF ~Within(d, MinTimeT, MaxTimeT)
    THEN Raise("OverflowError", "timestamp out of range for platform time_t")
    ELSE IF ~Within(d, MinLocaltime, MaxLocaltime)
    THEN Raise("OSError", "Value too large for defined data type")
    ELSE IF ~Within(d, MinDatetime, MaxDatetime)
    THEN Raise("ValueError", "year is out of range")
    ELSE Ok([src |-> "epoch", at |-> "", m |-> d.m, e |-> d.e])

\* ts > 1e12
IsMilliseconds(d) == Less([m |-> 1, e |-> 12], d)

\* ts / 1000
DivThousand(d) == IF d.m = 0 THEN d ELSE [m |-> d.m, e |-> d.e - 3]

\* the numeric branch with no division: every number is read as seconds
NumericTimestamp_SecondsOnly(d) == fromtimestamp(d)

\* the numeric branch of the timestamp block of _parse_trade
NumericTimestamp(d) ==
    fromtimestamp(IF IsMilliseconds(d) THEN DivThousand(d) ELSE d)

\* except (ValueError, TypeError): pass, which leaves the fallback
\* datetime.now(); any other exception escapes
Fallback(timestamp) ==
    IF ~timestamp.ok /\ timestamp.exc.type \in {"ValueError", "TypeError"}
    THEN Ok(Now) ELSE timestamp

\* the timestamp block of _parse_trade
ParseTimestamp(data) ==
    LET ts == Get(data, "timestamp", JNull)
    IN IF ~Truthy(ts) THEN Ok(Now)
       ELSE IF ts.k \in {"num", "dec", "bool"}
       THEN Fallback(NumericTimestamp(DecOf(ts)))
       ELSE IF PyStr(ts) \in DOMAIN IsoTexts
       THEN Ok([src |-> "iso", at |-> IsoTexts[PyStr(ts)], m |-> 0, e |-> 0])
       ELSE Ok(Now)

\* the return statement of _parse_trade with the camelCase spellings and
\* market_id looked up first
TradeFrom_SecondFirst(data, timestamp) ==
         LET price == FloatOrZero(data, "price")
             size == FloatOrZero(data, "size")
         IN IF ~timestamp.ok THEN timestamp
            ELSE IF ~price.ok THEN price
            ELSE IF ~size.ok THEN size
            ELSE Trade([
                id |-> PyStr(Get(data, "id", JStr(""))),
                market_id |-> PyStr(Get(data, "market_id", Get(data, "market", JStr("")))),
                asset_id |-> PyStr(Get(data, "assetId", Get(data, "asset_id", JStr("")))),
                side |-> ParseSide(data),
                price |-> price.v,
                size |-> size.v,
                outcome |-> PyStr(Get(data, "outcome", JStr(""))),
                timestamp |-> timestamp.v,
                maker_address |->
                    PyStr(Get(data, "makerAddress", Get(data, "maker_address", JStr("")))),
                taker_address |->
                    PyStr(Get(data, "takerAddress", Get(data, "taker_address", JStr(""))))])

\* the return statement of _parse_trade, given how the timestamp block ended
TradeFrom(data, timestamp) ==
         LET price == FloatOrZero(data, "price")
             size == FloatOrZero(data, "size")
         IN IF ~timestamp.ok THEN timestamp
            ELSE IF ~price.ok THEN price
            ELSE IF ~size.ok THEN size
            ELSE Trade([
                id |-> PyStr(Get(data, "id", JStr(""))),
                market_id |-> PyStr(Get(data, "market", Get(data, "market_id", JStr("")))),
                asset_id |-> PyStr(Get(data, "asset_id", Get(data, "assetId", JStr("")))),
                side |-> ParseSide(data),
                price |-> price.v,
                size |-> size.v,
                outcome |-> PyStr(Get(data, "outcome", JStr(""))),
                timestamp |-> timestamp.v,
                maker_address |->
                    PyStr(Get(data, "maker_address", Get(data, "makerAddress", JStr("")))),
                taker_address |->
                    PyStr(Get(data, "taker_address", Get(data, "takerAddress", JStr(""))))])

_parse_trade(data) ==
    IF data.k # "obj"
    THEN Raise("AttributeError", "object has no attribute 'get'")
    ELSE TradeFrom(data, ParseTimestamp(data))


(***************************************************************************)
(* Fetch client: src/src/services/polymarket_client.py                     *)
(***************************************************************************)
PolymarketClientError == "PolymarketClientError"
NotInitialized == "Client not initialized. Use 'async with'."

\* The value None, as a result.
PyNone == [k |-> "None"]

\* An upstream answer: the transport fails, or a status and a body arrive.
\* A body of kind "invalid" is text that is not JSON.
TransportFailure == [net |-> "fail", status |-> 0, body |-> JNull]
HttpStatus(status) == [net |-> "ok", status |-> status, body |-> JNull]
Http200(body) == [net |-> "ok", status |-> 200, body |-> body]
InvalidJson == [k |-> "invalid"]

\* _init_clob_client(private_key): TRUE iff self._clob_client is set after it.
\* handshake is what the signing library does: "ok", "ctor_raises" (ClobClient()
\* raises) or "derive_raises" (create_or_derive_api_creds raises).
\* _init_clob_client whose except clause does not reset self._clob_client:
\* the ClobClient built before the failure stays
_init_clob_client_NoReset(handshake) == handshake # "ctor_raises"

_init_clob_client(handshake) == handshake = "ok"

\* The calls _init_clob_client makes to the signing library, in order, up to
\* the one that raises.
ClobCalls(handshake) ==
    CASE handshake = "ctor_raises" -> <<"ClobClient">>
      [] handshake = "derive_raises" -> <<"ClobClient", "create_or_derive_api_creds">>
      [] OTHER -> <<"ClobClient", "create_or_derive_api_creds", "set_api_creds">>

\* PolymarketClient.__init__(private_key=key) with the library present or not
__init__(key, lib, handshake) ==
    [base_url |-> "https://gamma-api.polymarket.com",
     _client |-> 0,
     transports |-> <<>>,
     _clob_client |-> IF key # "" /\ lib THEN _init_clob_client(handshake) ELSE FALSE,
     _executor |-> "running",
     clob_calls |-> IF key # "" /\ lib THEN ClobCalls(handshake) ELSE <<>>,
     handshakes |-> IF key # "" /\ lib /\ handshake # "ctor_raises" THEN 1 ELSE 0]

\* __aenter__ that performs the handshake on connect
__aenter___Handshake(s) ==
    [s EXCEPT !.transports = Append(s.transports, "open"),
              !._client = Len(s.transports) + 1,
              !.clob_calls = s.clob_calls \o ClobCalls("ok"),
              !.handshakes = s.handshakes + 1]

\* __aenter__: a new httpx.AsyncClient replaces self._client
__aenter__(s) ==
    [s EXCEPT !.transports = Append(s.transports, "open"),
              !._client = Len(s.transports) + 1]

\* aclose() that also forgets the AsyncClient (self._client = None)
aclose_Reset(s) ==
    [s EXCEPT !.transports = IF s._client # 0
                             THEN [s.transports EXCEPT ![s._client] = "closed"]
                             ELSE s.transports,
              !._client = 0]

\* if self._client: await self._client.aclose() -- the AsyncClient is marked
\* closed at the call, before the coroutine awaits; self._client keeps
\* referring to the closed AsyncClient
aclose(s) ==
    [s EXCEPT !.transports = IF s._client # 0
                             THEN [s.transports EXCEPT ![s._client] = "closed"]
                             ELSE s.transports]

\* self._executor.shutdown(wait=False)
shutdown(s) == [s EXCEPT !._executor = "shutdown"]

\* __aexit__ run to its end without interruption
__aexit__(s) == shutdown(aclose(s))

\* The lifecycle state of the session.
LifeCycle(s) ==
    IF s._client = 0 THEN "Unconnected"
    ELSE IF s.transports[s._client] = "open" THEN "Connected"
    ELSE "Closed"

\* await self._client.get(...); response.raise_for_status(); response.json()
\* httpx refuses to send on a closed AsyncClient with a RuntimeError;
\* raise_for_status raises for every status outside 200..299.
HttpGet(s, resp) ==
    IF s.transports[s._client] = "closed"
    THEN Sends(0, Raise("RuntimeError",
                        "Cannot send a request, as the client has been closed."))
    ELSE Sends(1,
        IF resp.net = "fail" THEN Raise("RequestError", "connect/timeout")
        ELSE IF resp.status < 200 \/ resp.status >= 300
        THEN Raise("HTTPStatusError", ToString(resp.status))
        ELSE IF resp.body.k = "invalid" THEN Raise("JSONDecodeError", "Expecting value")
        ELSE Ok(resp.body))

\* _get that sends the request a second time when the first attempt fails
_get_Retry(s, resp) ==
    IF s._client = 0 THEN Sends(0, Raise(PolymarketClientError, NotInitialized))
    ELSE LET r == HttpGet(s, resp)
         IN IF r.ok THEN r
            ELSE IF r.exc.type = "HTTPStatusError"
            THEN Sends(r.sent + 1, Raise(PolymarketClientError, "API error"))
            ELSE IF r.exc.type = "RequestError"
            THEN Sends(r.sent + 1, Raise(PolymarketClientError, "Request failed"))
            ELSE r

\* PolymarketClient._get
_get(s, resp) ==
    IF s._client = 0 THEN Sends(0, Raise(PolymarketClientError, NotInitialized))
    ELSE LET r == HttpGet(s, resp)
         IN IF r.ok THEN r
            ELSE IF r.exc.type = "HTTPStatusError"
            THEN Sends(r.sent, Raise(PolymarketClientError, "API error"))
            ELSE IF r.exc.type = "RequestError"
            THEN Sends(r.sent, Raise(PolymarketClientError, "Request failed"))
            ELSE r

RECURSIVE MarketsLoop(_)
\* the for loop of get_markets; its except handler calls item.get(...)
MarketsLoop(items) ==
    IF items = <<>> THEN Ok(<<>>)
    ELSE LET item == Head(items)
             market == _parse_market(item)
         IN IF ~market.ok /\ item.k # "obj"
            THEN Raise("AttributeError", "object has no attribute 'get'")
            ELSE LET rest == MarketsLoop(Tail(items))
                 IN IF ~rest.ok THEN rest
                    ELSE Ok((IF market.ok THEN <<market.v>> ELSE <<>>) \o rest.v)

\* PolymarketClient.get_markets
get_markets(s, resp) ==
    LET data == _get(s, resp)
        items == IF data.ok THEN Iter(data.v) ELSE data
    IN Sends(data.sent, IF ~items.ok THEN items ELSE MarketsLoop(items.v))

\* get_market that answers None, without a request, when the session holds
\* no authenticated client
get_market_KeyRequired(s, market_id, resp) ==
    IF s._client # 0 /\ ~s._clob_client THEN Sends(0, Ok(PyNone))
    ELSE LET data == _get(s, resp)
         IN Sends(data.sent,
                  IF data.ok THEN _parse_market(data.v)
                  ELSE IF data.exc.type = PolymarketClientError THEN Ok(PyNone)
                  ELSE data)

\* PolymarketClient.get_market
get_market(s, market_id, resp) ==
    LET data == _get(s, resp)
    IN Sends(data.sent,
             IF data.ok THEN _parse_market(data.v)
             ELSE IF data.exc.type = PolymarketClientError THEN Ok(PyNone)
             ELSE data)

\* The stop index of [:limit] on a sequence of n elements: a negative limit
\* counts from the end.
Stop(n, limit) ==
    IF limit >= n THEN n
    ELSE IF limit >= 0 THEN limit
    ELSE IF n + limit >= 0 THEN n + limit
    ELSE 0

\* raw_trades[:limit].  A dict is subscripted with the slice as its key:
\* KeyError (Python 3.12 and later, where a slice is hashable; TypeError
\* before).
Slice(v, limit) ==
    CASE v.k = "arr" -> Ok(SubSeq(v.items, 1, Stop(Len(v.items), limit)))
      [] v.k = "str" -> LET cs == CharsFrom(CharsOf[v.s], 1)
                        IN Ok(SubSeq(cs, 1, Stop(Len(cs), limit)))
      [] v.k = "obj" -> Raise("KeyError", "slice(None, limit, None)")
      [] OTHER -> Raise("TypeError", "object is not subscriptable")

\* trades.append(trade), or the except clause that logs and goes on
Appended(trade) == IF trade.ok THEN <<trade.v>> ELSE <<>>

RECURSIVE TradesLoop(_)
\* the for loop of get_recent_trades / get_market_trades
TradesLoop(items) ==
    IF items = <<>> THEN <<>>
    ELSE Appended(_parse_trade(Head(items))) \o TradesLoop(Tail(items))

\* the body shared by get_recent_trades and get_market_trades
FetchTrades(s, limit, resp) ==
    IF s._client = 0 THEN Sends(0, Raise(PolymarketClientError, NotInitialized))
    ELSE LET raw_trades == HttpGet(s, resp)
             items == IF raw_trades.ok THEN Slice(raw_trades.v, limit) ELSE raw_trades
         IN Sends(raw_trades.sent,
                  IF items.ok THEN Ok(TradesLoop(items.v))
                  ELSE Raise(PolymarketClientError, "Data API error"))

\* get_recent_trades that normalizes the whole upstream list and cuts the
\* result to limit afterwards (trades[:limit])
get_recent_trades_CutAfter(s, limit, resp) ==
    IF s._client = 0 THEN Sends(0, Raise(PolymarketClientError, NotInitialized))
    ELSE LET raw_trades == HttpGet(s, resp)
             items == IF raw_trades.ok THEN Iter(raw_trades.v) ELSE raw_trades
         IN Sends(raw_trades.sent,
                  IF items.ok
                  THEN LET trades == TradesLoop(items.v)
                       IN Ok(SubSeq(trades, 1, IF limit < Len(trades) THEN limit
                                               ELSE Len(trades)))
                  ELSE Raise(PolymarketClientError, "Data API error"))

\* PolymarketClient.get_recent_trades
get_recent_trades(s, limit, resp) == FetchTrades(s, limit, resp)

\* PolymarketClient.get_market_trades
get_market_trades(s, market_id, limit, resp) == FetchTrades(s, limit, resp)

\* The fetch operation op run on the session s against the upstream answer resp
Run(op, s, market_id, limit, resp) ==
    CASE op = "get_markets" -> get_markets(s, resp)
      [] op = "get_market" -> get_market(s, market_id, resp)
      [] op = "get_recent_trades" -> get_recent_trades(s, limit, resp)
      [] op = "get_market_trades" -> get_market_trades(s, market_id, limit, resp)


(***************************************************************************)
(* Boundary layer: src/src/api/routes/markets.py.  Every route builds its  *)
(* own client, enters it, fetches, and leaves it.                          *)
(***************************************************************************)
\* What FastAPI answers for the outcome r of the handler body: the value, the
\* HTTPException(502) of the except clause, or 500 for an unhandled exception.
Respond(r, body) ==
    IF r.ok THEN [status |-> 200, body |-> body, detail |-> ""]
    ELSE IF r.exc.type = PolymarketClientError
    THEN [status |-> 502, body |-> <<>>, detail |-> "Polymarket API error"]
    ELSE [status |-> 500, body |-> <<>>, detail |-> "Internal Server Error"]

\* Each handler below is the stretch of its route from the arrival of the
\* upstream answer to the await of aclose() in __aexit__: the fetch returns or
\* raises, the rest of the block runs, and the block is left.  client is the
\* client the handler built and entered, response what FastAPI will answer.

\* GET /markets
route_get_markets(client, resp) ==
    LET r == get_markets(client, resp)
    IN [client |-> aclose(client), sent |-> r.sent,
        response |-> Respond(r, IF r.ok THEN r.v ELSE <<>>)]

\* GET /markets/{market_id}
route_get_market(client, market_id, resp) ==
    LET r == get_market(client, market_id, resp)
    IN [client |-> aclose(client), sent |-> r.sent,
        response |-> IF r.ok /\ r.v = PyNone
                     THEN [status |-> 404, body |-> <<>>, detail |-> "Market not found"]
                     ELSE Respond(r, IF r.ok THEN <<r.v>> ELSE <<>>)]

\* GET /markets/{market_id}/trades
route_get_market_trades(client, market_id, limit, resp) ==
    LET r == get_market_trades(client, market_id, limit, resp)
    IN [client |-> aclose(client), sent |-> r.sent,
        response |-> Respond(r, IF r.ok THEN r.v ELSE <<>>)]

\* [t for t in trades if t.size >= threshold]
AtLeast(trades, threshold) == SelectSeq(trades, LAMBDA t : t.size >= threshold)

\* GET /trades
route_get_recent_trades(client, limit, min_size, resp) ==
    LET r == get_recent_trades(client, limit, resp)
    IN [client |-> aclose(client), sent |-> r.sent,
        response |-> Respond(r, IF ~r.ok THEN <<>>
                                ELSE IF min_size > 0 THEN AtLeast(r.v, min_size)
                                ELSE r.v)]

\* GET /trades/whales
route_get_whale_trades(client, limit, threshold, resp) ==
    LET r == get_recent_trades(client, limit, resp)
    IN [client |-> aclose(client), sent |-> r.sent,
        response |-> Respond(r, IF r.ok THEN AtLeast(r.v, threshold) ELSE <<>>)]

(***************************************************************************)
(* The universe of upstream payloads.                                      *)
(***************************************************************************)
\* Market payloads
MGood ==
    JObj([id |-> JStr("m1"), conditionId |-> JStr("c1"), question |-> JStr("Q1"),
          outcomePrices |-> JStr("[\"0.65\",\"0.35\"]"), volume |-> JStr("500")])
MHighPrice ==
    JObj([id |-> JStr("m2"), question |-> JStr("Q2"),
          outcomePrices |-> JStr("[\"1.5\",\"-0.1\"]")])
MNegVolume ==
    JObj([id |-> JStr("m3"), question |-> JStr("Q3"), volume |-> JNum(-500)])
MNegLiquidity ==
    JObj([id |-> JStr("m4"), question |-> JStr("Q4"), liquidity |-> JStr("-0.1")])
MNullQuestion ==
    JObj([id |-> JStr("m5"), question |-> JNull])
MBadPrices ==
    JObj([id |-> JStr("m6"), question |-> JStr("Q6"), outcomePrices |-> JStr("oops")])
MNoId ==
    JObj([conditionId |-> JStr("c7"), question |-> JStr("Q7")])
MNoCondition ==
    JObj([id |-> JStr("m8"), question |-> JStr("Q8")])
MNoQuestion ==
    JObj([id |-> JStr("m9"), condition_id |-> JStr("c9")])

\* Trade payloads
TradeOf(id, side, price, size) ==
    JObj([id |-> JStr(id), market |-> JStr("c1"), side |-> side,
          price |-> price, size |-> size])
TBuy == TradeOf("t1", JStr("buy"), JStr("0.65"), JNum(50000))
TSell == TradeOf("t2", JStr("SELL"), JNum(35), JStr("499.99"))
THold == TradeOf("t3", JStr("hold"), JNum(100), JNum(0))
THighPrice == TradeOf("t4", JStr("BUY"), JStr("1.5"), JNum(700))
TNoSide == JObj([id |-> JStr("t5"), market_id |-> JStr("c1"), price |-> JNull])

\* A trade payload carrying the timestamp ts
TradeAt(ts) ==
    JObj([id |-> JStr("t6"), market |-> JStr("c1"), side |-> JStr("BUY"),
          price |-> JStr("0.65"), size |-> JNum(50000), timestamp |-> ts])

\* Numeric timestamps: seconds, milliseconds, the boundary 10^12 itself, and
\* values beyond every range
NumericTimestamps ==
    {JDec(17, 8), JDec(17, 11), JDec(1700000001, 0), JDec(1700000001, 3),
     JDec(2, 9), JDec(2, 12), JDec(1, 12), JDec(1, 15), JDec(3, 11), JDec(-1, 11),
     JDec(1, 20), JDec(1, 30), JDec(-1, 20), JNum(100), JNum(150), JBool(TRUE)}

\* Timestamps of other types
OtherTimestamps ==
    {JStr("2025-12-31T00:00:00Z"), JStr("oops"), JStr("7"), JStr(""), JNull,
     JNum(0), JArr(<<JNum(100)>>), JObj([error |-> JStr("no")])}

\* Elements of other JSON types
NonObjects == {JStr("no"), JNum(700), JNull, JArr(<<>>)}

RECURSIVE SeqsUpTo(_, _)
\* every sequence over S of length at most n
SeqsUpTo(S, n) ==
    IF n = 0 THEN {<<>>}
    ELSE LET shorter == SeqsUpTo(S, n - 1)
         IN shorter \cup {Append(q, x) : q \in shorter, x \in S}

Failures == {TransportFailure, HttpStatus(302), HttpStatus(404), HttpStatus(500)}

\* Answers a session meets over its life
SessionResponses ==
    Failures \cup
    {Http200(b) : b \in {JArr(<<>>), JArr(<<MGood>>), MGood,
                         JArr(<<TBuy, THighPrice, TSell>>), InvalidJson}}

MarketIds == {"m1", "c1"}
Limits == 1..MaxLimit
Keys == {"", "0xk"}
Handshakes == {"ok", "ctor_raises", "derive_raises"}

(***************************************************************************)
(* The session specification: one client instance, used through any        *)
(* sequence of async-with blocks and fetch calls.                          *)
(***************************************************************************)
NoResponse == [net |-> "none", status |-> 0, body |-> JNull]

\* An argument that is no upstream answer, as the record of an operation keeps it.
Payload(data) == [net |-> "none", status |-> 0, body |-> data]

\* The record kept of an operation.
Obs(op, pre, market_id, limit, resp, out) ==
    [op |-> op, pre |-> pre, market_id |-> market_id, limit |-> limit,
     min_size |-> 0, resp |-> resp, out |-> out]

\* The record kept of a fetch: at is the session as the fetch found it when
\* it was called.
Fetched(op, at, market_id, limit, resp, out) ==
    Obs(op, LifeCycle(at), market_id, limit, resp, out) @@ [at |-> at]

\* The record kept of a coroutine that has reached its await.
Suspended(op, s) ==
    Obs("await", LifeCycle(s), "", 0, Payload(JStr(op)), Sends(0, Ok(PyNone)))

\* The record kept of an __aexit__ that ended; scope is the transport the
\* block it leaves allocated on entry (0 when __aexit__ is called outside
\* any block).
Left(exit, out) ==
    Obs("__aexit__", exit.pre, "", 0, Payload(JStr(exit.exc_type)), Sends(0, out))
        @@ [scope |-> exit.scope]

\* No fetch is awaiting; no __aexit__ is awaiting.
NoCall == [op |-> "", market_id |-> "", limit |-> 0, at |-> PyNone]
NoExit == [exc_type |-> "", pre |-> "", scope |-> 0]

\* A caller with nothing in progress, inside the blocks of scopes.
Quiet(scopes) == [fetch |-> NoCall, exit |-> NoExit, scopes |-> scopes, held |-> <<>>]

\* The fetch calls a caller makes
FetchCalls(limits) ==
    {[op |-> "get_markets", market_id |-> "", limit |-> 0]}
    \cup {[op |-> "get_market", market_id |-> m, limit |-> 0] : m \in MarketIds}
    \cup {[op |-> "get_recent_trades", market_id |-> "", limit |-> l] : l \in limits}
    \cup {[op |-> "get_market_trades", market_id |-> m, limit |-> l] :
              m \in MarketIds, l \in limits}

\* The limits of the calls made over the life of a session
SessionLimits == {1, MaxLimit}

Init ==
    /\ CLOB_AVAILABLE \in BOOLEAN
    /\ private_key \in Keys
    /\ \E handshake \in Handshakes :
        /\ (private_key = "" \/ ~CLOB_AVAILABLE) => handshake = "ok"
        /\ self = __init__(private_key, CLOB_AVAILABLE, handshake)
    /\ caller = Quiet(<<>>)
    /\ last = Obs("__init__", "None", "", 0, NoResponse, Sends(0, Ok(PyNone)))

\* async with client: entered.  __aenter__ has no guard: entered on a
\* Connected session it replaces self._client and the AsyncClient it held
\* stays open.
Enter ==
    /\ Len(self.transports) < MaxTransports
    /\ self' = __aenter__(self)
    /\ caller' = [caller EXCEPT !.scopes = Append(@, Len(self.transports) + 1)]
    /\ last' = Obs("__aenter__", LifeCycle(self), "", 0, NoResponse, Sends(0, Ok(PyNone)))
    /\ UNCHANGED <<CLOB_AVAILABLE, private_key>>

\* The exc_type __aexit__ may be given: None when the body completed, the
\* exception of the fetch that just failed, or one raised by the caller's own
\* code in the body.
ExitPaths ==
    {"None", "KeyError"} \cup
    (IF last.op \in {"get_markets", "get_market", "get_recent_trades",
                     "get_market_trades"} /\ ~last.out.ok
     THEN {last.out.exc.type} ELSE {})

\* The innermost block entered, and the blocks around it.
Innermost(scopes) == IF scopes = <<>> THEN 0 ELSE scopes[Len(scopes)]
Outer(scopes) == IF scopes = <<>> THEN <<>> ELSE SubSeq(scopes, 1, Len(scopes) - 1)

\* async with client: left, on any exit path, or __aexit__ called outside any
\* block.  With an open AsyncClient held, __aexit__ runs up to await
\* self._client.aclose(), where closing the connections suspends it; with
\* none, or with one that is closed already (aclose() then returns at once),
\* it runs to its end.
Exit ==
    /\ caller.exit.exc_type = ""
    /\ \E exc_type \in ExitPaths :
        LET exit == [exc_type |-> exc_type, pre |-> LifeCycle(self),
                     scope |-> Innermost(caller.scopes)]
        IN IF LifeCycle(self) = "Connected"
           THEN /\ self' = aclose(self)
                /\ caller' = [caller EXCEPT !.exit = exit, !.scopes = Outer(@)]
                /\ last' = Suspended("__aexit__", self)
           ELSE /\ self' = __aexit__(self)
                /\ caller' = [caller EXCEPT !.scopes = Outer(@)]
                /\ last' = Left(exit, Ok(PyNone))
    /\ UNCHANGED <<CLOB_AVAILABLE, private_key>>

\* aclose() returns: __aexit__ shuts the executor down and ends.
Shutdown ==
    /\ caller.exit.exc_type # ""
    /\ self' = shutdown(self)
    /\ caller' = [caller EXCEPT !.exit = NoExit]
    /\ last' = Left(caller.exit, Ok(PyNone))
    /\ UNCHANGED <<CLOB_AVAILABLE, private_key>>

\* The task running __aexit__ is cancelled while it awaits aclose():
\* CancelledError leaves __aexit__ before the executor is shut down.
Cancel ==
    /\ caller.exit.exc_type # ""
    /\ caller' = [caller EXCEPT !.exit = NoExit]
    /\ last' = Left(caller.exit, Raise("CancelledError", ""))
    /\ UNCHANGED <<CLOB_AVAILABLE, private_key, self>>

\* A fetch is called: the guard on self._client is read and the request is
\* handed to the AsyncClient, where the coroutine awaits the upstream answer.
\* On a session that is not Connected the call ends at once.
Await(calls) ==
    /\ caller.fetch.op = ""
    /\ \E c \in calls :
        IF LifeCycle(self) = "Connected"
        THEN /\ caller' = [caller EXCEPT !.fetch = c @@ [at |-> self]]
             /\ last' = Suspended(c.op, self)
        ELSE /\ caller' = caller
             /\ last' = Fetched(c.op, self, c.market_id, c.limit, NoResponse,
                                Run(c.op, self, c.market_id, c.limit, NoResponse))
    /\ UNCHANGED <<CLOB_AVAILABLE, private_key, self>>

\* The upstream answer arrives and the fetch runs to its return or raise, on
\* the AsyncClient it handed the request to.
GetMarkets(responses) ==
    /\ caller.fetch.op = "get_markets"
    /\ \E resp \in responses :
        last' = Fetched("get_markets", caller.fetch.at, "", 0, resp,
                        get_markets(caller.fetch.at, resp))
    /\ caller' = [caller EXCEPT !.fetch = NoCall]
    /\ UNCHANGED <<CLOB_AVAILABLE, private_key, self>>

GetMarket(responses) ==
    /\ caller.fetch.op = "get_market"
    /\ \E resp \in responses :
        last' = Fetched("get_market", caller.fetch.at, caller.fetch.market_id, 0, resp,
                        get_market(caller.fetch.at, caller.fetch.market_id, resp))
    /\ caller' = [caller EXCEPT !.fetch = NoCall]
    /\ UNCHANGED <<CLOB_AVAILABLE, private_key, self>>

GetRecentTrades(responses) ==
    /\ caller.fetch.op = "get_recent_trades"
    /\ \E resp \in responses :
        last' = Fetched("get_recent_trades", caller.fetch.at, "", caller.fetch.limit, resp,
                        get_recent_trades(caller.fetch.at, caller.fetch.limit, resp))
    /\ caller' = [caller EXCEPT !.fetch = NoCall]
    /\ UNCHANGED <<CLOB_AVAILABLE, private_key, self>>

GetMarketTrades(responses) ==
    /\ caller.fetch.op = "get_market_trades"
    /\ \E resp \in responses :
        last' = Fetched("get_market_trades", caller.fetch.at, caller.fetch.market_id,
                        caller.fetch.limit, resp,
                        get_market_trades(caller.fetch.at, caller.fetch.market_id,
                                          caller.fetch.limit, resp))
    /\ caller' = [caller EXCEPT !.fetch = NoCall]
    /\ UNCHANGED <<CLOB_AVAILABLE, private_key, self>>

Next ==
    \/ Enter
    \/ Exit
    \/ Shutdown
    \/ Cancel
    \/ Await(FetchCalls(SessionLimits))
    \/ GetMarkets(SessionResponses)
    \/ GetMarket(SessionResponses)
    \/ GetRecentTrades(SessionResponses)
    \/ GetMarketTrades(SessionResponses)

Spec == Init /\ [][Next]_vars


(***************************************************************************)
(* The batch specification: a Connected session fetching upstream lists of *)
(* every shape up to MaxLen elements.                                      *)
(***************************************************************************)
MarketElements ==
    {MGood, MHighPrice, MNegVolume, MNoId, MNoCondition, MNoQuestion, JStr("no"), JNull}
TradeElements == {TBuy, TSell, THighPrice, JStr("no")}

\* Bodies that are no list
OtherBodies == {MGood, JNull, JStr("no"), JStr(""), JNum(700), InvalidJson}

\* Batches of 3 market payloads whose 2nd element varies
BatchesOfThree == {<<MGood, e, MGood>> : e \in MarketElements}

MarketResponses ==
    Failures \cup {Http200(JArr(q)) : q \in SeqsUpTo(MarketElements, MaxLen)}
             \cup {Http200(JArr(q)) : q \in BatchesOfThree}
             \cup {Http200(b) : b \in OtherBodies}

SingleResponses ==
    Failures \cup {Http200(b) : b \in MarketElements \cup OtherBodies
                                     \cup {MNegLiquidity, MNullQuestion, MBadPrices}}

TradeResponses ==
    Failures \cup {Http200(JArr(q)) : q \in SeqsUpTo(TradeElements, MaxLen)}
             \cup {Http200(b) : b \in OtherBodies}

BatchInit ==
    /\ CLOB_AVAILABLE = FALSE
    /\ private_key = ""
    /\ self = __aenter__(__init__("", FALSE, "ok"))
    /\ caller = Quiet(<<1>>)
    /\ last = Obs("__aenter__", "Unconnected", "", 0, NoResponse, Sends(0, Ok(PyNone)))

BatchNext ==
    \/ Await(FetchCalls(Limits))
    \/ GetMarkets(MarketResponses)
    \/ GetMarket(SingleResponses)
    \/ GetRecentTrades(TradeResponses)
    \/ GetMarketTrades(TradeResponses)

BatchSpec == BatchInit /\ [][BatchNext]_vars

(***************************************************************************)
(* The trade-list specification: a Connected session fetching upstream     *)
(* lists of trades of every shape up to MaxLen elements.                   *)
(***************************************************************************)
TFarFuture == TradeAt(JDec(1, 20))
TMillis == TradeAt(JDec(17, 11))

TradeListElements == {TBuy, TSell, THighPrice, TMillis, TFarFuture, JStr("no")}

TradeListResponses ==
    Failures \cup {Http200(JArr(q)) : q \in SeqsUpTo(TradeListElements, MaxLen)}
             \cup {Http200(b) : b \in {MGood, JNull, InvalidJson}}

\* The limits of the trade-list calls: a negative limit counts from the end
TradeLimits == Limits \cup {-1}

TradeNext ==
    \/ Await(FetchCalls(TradeLimits))
    \/ GetRecentTrades(TradeListResponses)
    \/ GetMarketTrades(Failures \cup {Http200(JArr(<<TSell, TBuy>>))})

TradeSpec == BatchInit /\ [][TradeNext]_vars

(***************************************************************************)
(* The normalizer specification: _parse_market and _parse_trade applied to *)
(* single payloads.                                                        *)
(***************************************************************************)
SideTokens ==
    {JStr("BUY"), JStr("buy"), JStr("Buy"), JStr("SELL"), JStr("sell"),
     JStr("Sell"), JStr("hold"), JStr(""), JNull, JNum(100)}

TradePayloads ==
    {TradeOf("t1", side, price, size) :
        side \in SideTokens,
        price \in {JStr("0.65"), JNum(150), JNull},
        size \in {JNum(50000), JNum(49999), JStr("-5")}}
    \cup {TradeAt(ts) : ts \in NumericTimestamps \cup OtherTimestamps}
    \cup {TNoSide} \cup NonObjects

\* Prices and sizes given to the constructors, around the bounds 0.0 and 1.0
Prices == {-100, -1, 0, 1, 65, 99, 100, 101, 150}
Sizes == {-1, 0, WhaleThreshold}

MarketOf(prices, volume, question) ==
    JObj([id |-> JStr("m1"), question |-> question, outcomePrices |-> prices,
          volume |-> volume])

MarketPayloads ==
    {MarketOf(prices, volume, question) :
        prices \in {JStr("[\"0.65\",\"0.35\"]"), JStr("[\"1.5\",\"-0.1\"]"),
                    JArr(<<JNum(65), JStr("0.35")>>), JStr("oops"), JNull,
                    JArr(<<>>)},
        volume \in {JStr("500"), JNum(-500), JNull},
        question \in {JStr("Q1"), JNull}}
    \cup {MGood, MHighPrice, MNegVolume, MNegLiquidity, MNullQuestion, MBadPrices}
    \cup NonObjects
    \cup {JArr(<<JStr("outcomePrices")>>), JArr(<<JStr("id"), JStr("outcomes")>>),
          JArr(<<JStr("id")>>), JStr("no outcomePrices"), JStr("outcomes")}

NormInit ==
    /\ CLOB_AVAILABLE = FALSE
    /\ private_key = ""
    /\ caller = Quiet(<<>>)
    /\ self = __init__("", FALSE, "ok")
    /\ last = Obs("__init__", "None", "", 0, NoResponse, Sends(0, Ok(PyNone)))

ParseMarket ==
    \E data \in MarketPayloads :
        /\ last' = Obs("_parse_market", "None", "", 0, Payload(data),
                       Sends(0, _parse_market(data)))
        /\ UNCHANGED <<CLOB_AVAILABLE, private_key, self, caller>>

ParseTrade ==
    \E data \in TradePayloads :
        /\ last' = Obs("_parse_trade", "None", "", 0, Payload(data),
                       Sends(0, _parse_trade(data)))
        /\ UNCHANGED <<CLOB_AVAILABLE, private_key, self, caller>>

\* Trade(id=..., market_id=..., side=..., price=price, size=size, timestamp=...)
NewTrade ==
    \E price \in Prices, size \in Sizes :
        /\ last' = Obs("Trade", "None", "", 0,
                       Payload(JObj([price |-> JNum(price), size |-> JNum(size)])),
                       Sends(0, Trade([id |-> "t1", market_id |-> "c1", asset_id |-> "",
                                       side |-> TradeSide.BUY, price |-> price,
                                       size |-> size, outcome |-> "",
                                       timestamp |-> Now, maker_address |-> "",
                                       taker_address |-> ""])))
        /\ UNCHANGED <<CLOB_AVAILABLE, private_key, self, caller>>

\* Outcome(outcome="Yes", price=price)
NewOutcome ==
    \E price \in Prices :
        /\ last' = Obs("Outcome", "None", "", 0,
                       Payload(JObj([price |-> JNum(price)])),
                       Sends(0, Outcome([outcome |-> JStr("Yes"), price |-> price])))
        /\ UNCHANGED <<CLOB_AVAILABLE, private_key, self, caller>>

NormNext == ParseMarket \/ ParseTrade \/ NewTrade \/ NewOutcome

NormSpec == NormInit /\ [][NormNext]_vars

(***************************************************************************)
(* The field specification: _parse_market and _parse_trade applied to      *)
(* payloads in which one group of fields varies: present under either       *)
(* spelling, absent, null, encoded as text or native.                      *)
(***************************************************************************)
\* No field at all, and the choice between leaving the field key out and
\* writing it with one of the values
NoField == [key \in {} |-> JNull]
Opt(key, values) == {NoField} \cup {key :> v : v \in values}

\* A market payload whose other fields are well formed
MarketWith(fields) == JObj([id |-> JStr("m1"), question |-> JStr("Q1")] @@ fields)

\* A trade payload whose other fields are well formed
TradeWith(fields) == JObj([id |-> JStr("t1"), side |-> JStr("BUY")] @@ fields)

\* outcomes as a list of objects, two of which carry an embedded price
PricedOutcomes ==
    JArr(<<JObj([outcome |-> JStr("Up"), price |-> JStr("0.65")]),
           JObj([outcome |-> JStr("Flat")]),
           JObj([outcome |-> JStr("Down"), price |-> JNum(35)])>>)

OutcomePricesValues ==
    {JStr("[\"0.65\",\"0.35\"]"), JArr(<<JNum(65), JStr("0.35")>>), JStr("[]"),
     JArr(<<>>), JNull, JStr("oops")}

OutcomesValues ==
    {JStr("[\"Up\",\"Down\"]"), JArr(<<JStr("Up"), JStr("Down")>>), JArr(<<>>),
     PricedOutcomes, JNull, JNum(700), JStr("oops"), JStr("[1,2]"), JStr("7"),
     JArr(<<JStr("Up"), JNum(100)>>), JArr(<<JNum(100), JStr("Up")>>)}

\* Markets whose outcomePrices and outcomes vary
OutcomeMarkets ==
    {MarketWith(p @@ o) : p \in Opt("outcomePrices", OutcomePricesValues),
                          o \in Opt("outcomes", OutcomesValues)}

\* Markets whose condition identifier varies in spelling
SpelledMarkets ==
    {MarketWith(a @@ b) : a \in Opt("conditionId", {JStr("c1"), JNull}),
                          b \in Opt("condition_id", {JStr("c2"), JNull})}

\* Trades in which one field varies in spelling
SpelledTrades ==
    UNION {{TradeWith(a @@ b) : a \in Opt(pair[1], {JStr("first"), JNull}),
                                b \in Opt(pair[2], {JStr("second")})} :
           pair \in {<<"market", "market_id">>, <<"asset_id", "assetId">>,
                     <<"maker_address", "makerAddress">>,
                     <<"taker_address", "takerAddress">>}}

\* The shapes a numeric field arrives in
NumericValues == {JNull, JNum(0), JStr("0"), JNum(700), JStr("7"), JNum(65), JStr("0.65")}

NumericMarkets ==
    {MarketWith(v @@ l) : v \in Opt("volume", NumericValues),
                          l \in Opt("liquidity", {JNull, JNum(700), JStr("7")})}

NumericTrades ==
    {TradeWith(p @@ z) : p \in Opt("price", {JNull, JNum(0), JNum(65), JStr("0.65")}),
                         z \in Opt("size", NumericValues)}

\* Markets whose active flag varies
ActiveMarkets ==
    {MarketWith(a) : a \in Opt("active", {JBool(FALSE), JNum(100), JNum(700), JNull,
                                          JStr("on"), JStr("OFF"), JStr("True"),
                                          JStr("f"), JStr("Y"), JStr("Maybe")})}

NormalizeMarket ==
    \E data \in OutcomeMarkets \cup SpelledMarkets \cup NumericMarkets
                \cup ActiveMarkets :
        /\ last' = Obs("_parse_market", "None", "", 0, Payload(data),
                       Sends(0, _parse_market(data)))
        /\ UNCHANGED <<CLOB_AVAILABLE, private_key, self, caller>>

NormalizeTrade ==
    \E data \in SpelledTrades \cup NumericTrades :
        /\ last' = Obs("_parse_trade", "None", "", 0, Payload(data),
                       Sends(0, _parse_trade(data)))
        /\ UNCHANGED <<CLOB_AVAILABLE, private_key, self, caller>>

FieldNext == NormalizeMarket \/ NormalizeTrade

FieldSpec == NormInit /\ [][FieldNext]_vars

(***************************************************************************)
(* The value specification: a caller on a Connected session keeps the      *)
(* Market and Trade values that fetches return, fetches again, and assigns  *)
(* to attributes of the values it holds.  caller.held is the sequence of    *)
(* values the caller holds, oldest first.                                  *)
(***************************************************************************)
\* What a caller assigns: a volume of -5.0, a size of 0.0, a property, a
\* private name, a name the class does not have
Assignments ==
    {[name |-> "volume", v |-> -500], [name |-> "size", v |-> 0],
     [name |-> "yes_price", v |-> 50], [name |-> "is_whale_trade", v |-> 0],
     [name |-> "_private", v |-> 100], [name |-> "colour", v |-> 100]}

ValueInit ==
    /\ CLOB_AVAILABLE = FALSE
    /\ private_key = ""
    /\ self = __aenter__(__init__("", FALSE, "ok"))
    /\ caller = Quiet(<<1>>)
    /\ last = Obs("__aenter__", "Unconnected", "", 0, NoResponse, Sends(0, Ok(PyNone)))

\* The values of a fetch result that the caller keeps, while it has room.
Kept(held, values) ==
    IF Len(held) + Len(values) <= MaxHeld THEN held \o values ELSE held

\* The fetch calls of a caller that keeps the results
ValueCalls ==
    {[op |-> "get_market", market_id |-> "m1", limit |-> 0]}
    \cup {[op |-> "get_recent_trades", market_id |-> "", limit |-> l] : l \in Limits}

\* market = await client.get_market(market_id)
KeepMarket ==
    /\ caller.fetch.op = "get_market"
    /\ \E resp \in {Http200(MGood), Http200(MNegVolume), HttpStatus(404)} :
        LET out == get_market(caller.fetch.at, caller.fetch.market_id, resp)
        IN /\ last' = Fetched("get_market", caller.fetch.at, caller.fetch.market_id, 0,
                               resp, out)
           /\ caller' = [caller EXCEPT !.fetch = NoCall,
                                        !.held = Kept(@, IF out.ok /\ out.v # PyNone
                                                         THEN <<out.v>> ELSE <<>>)]
    /\ UNCHANGED <<CLOB_AVAILABLE, private_key, self>>

\* trades = await client.get_recent_trades(limit)
KeepTrades ==
    /\ caller.fetch.op = "get_recent_trades"
    /\ \E resp \in {Http200(JArr(<<TBuy, TSell>>)), HttpStatus(500)} :
        LET out == get_recent_trades(caller.fetch.at, caller.fetch.limit, resp)
        IN /\ last' = Fetched("get_recent_trades", caller.fetch.at, "",
                               caller.fetch.limit, resp, out)
           /\ caller' = [caller EXCEPT !.fetch = NoCall,
                                        !.held = Kept(@, IF out.ok THEN out.v ELSE <<>>)]
    /\ UNCHANGED <<CLOB_AVAILABLE, private_key, self>>

\* held[i].name = v, by the caller
SetAttr ==
    \E i \in 1..Len(caller.held), a \in Assignments :
        LET out == __setattr__(caller.held[i], a.name, a.v)
        IN /\ last' = Obs("__setattr__", LifeCycle(self), "", i,
                          Payload(JObj([name |-> JStr(a.name), value |-> JNum(a.v)])),
                          Sends(0, IF out.ok THEN Ok(PyNone) ELSE out))
           /\ caller' = [caller EXCEPT !.held = IF out.ok THEN [@ EXCEPT ![i] = out.v]
                                                 ELSE @]
           /\ UNCHANGED <<CLOB_AVAILABLE, private_key, self>>

ValueNext == Await(ValueCalls) \/ KeepMarket \/ KeepTrades \/ SetAttr

ValueSpec == ValueInit /\ [][ValueNext]_vars

(***************************************************************************)
(* The concurrency specification: coroutines fetching on one Connected      *)
(* session.  A fetch runs without interruption up to its only await, the    *)
(* upstream request, and again from the arrival of the answer to its        *)
(* return.  last.tasks gives each coroutine's position and local state.     *)
(***************************************************************************)
Tasks == {"a", "b"}

\* A coroutine that is not running a fetch.
Idle ==
    [pc |-> "idle", op |-> "", market_id |-> "", limit |-> 0, at |-> PyNone,
     resp |-> NoResponse, out |-> Sends(0, Ok(PyNone)), overlapped |-> FALSE]

\* The fetch calls the coroutines make
Calls ==
    {[op |-> "get_markets", market_id |-> "", limit |-> 0],
     [op |-> "get_market", market_id |-> "m1", limit |-> 0]}
    \cup {[op |-> "get_recent_trades", market_id |-> "", limit |-> l] : l \in Limits}
    \cup {[op |-> "get_market_trades", market_id |-> "c1", limit |-> l] : l \in Limits}

ConcResponses ==
    {Http200(JArr(<<MGood>>)), Http200(JArr(<<TBuy, TSell>>)), Http200(MGood),
     HttpStatus(500)}

ConcInit ==
    /\ CLOB_AVAILABLE = FALSE
    /\ private_key = ""
    /\ self = __aenter__(__init__("", FALSE, "ok"))
    /\ caller = Quiet(<<1>>)
    /\ last = [op |-> "__aenter__", tasks |-> [t \in Tasks |-> Idle]]

\* The other coroutines, marked as overlapping when one is awaiting.
Overlapping(tasks, t) ==
    [u \in Tasks \ {t} |->
        IF tasks[u].pc = "awaiting" THEN [tasks[u] EXCEPT !.overlapped = TRUE]
        ELSE tasks[u]]

\* A coroutine calls a fetch: the guard on self._client is read and the
\* request is handed to the AsyncClient, where the coroutine awaits.  On a
\* session that is not Connected the call ends at once.
Call ==
    \E t \in Tasks, c \in Calls :
        /\ last.tasks[t].pc = "idle"
        /\ last' = [op |-> "call",
                    tasks |-> (t :> [pc |-> IF LifeCycle(self) = "Connected"
                                            THEN "awaiting" ELSE "done",
                                     op |-> c.op, market_id |-> c.market_id,
                                     limit |-> c.limit, at |-> self,
                                     resp |-> NoResponse,
                                     out |-> IF LifeCycle(self) = "Connected"
                                             THEN Sends(0, Ok(PyNone))
                                             ELSE Run(c.op, self, c.market_id,
                                                      c.limit, NoResponse),
                                     overlapped |->
                                         \E u \in Tasks \ {t} :
                                             last.tasks[u].pc = "awaiting"])
                              @@ Overlapping(last.tasks, t)]
        /\ UNCHANGED <<CLOB_AVAILABLE, private_key, self, caller>>

\* The task t once the upstream answer resp has arrived: the rest of the
\* fetch runs to its return or raise.
Resumed(task, resp) ==
    [task EXCEPT !.pc = "done", !.resp = resp,
                 !.out = Run(task.op, task.at, task.market_id, task.limit, resp)]

\* A fetch that forgets the AsyncClient when the request fails
\* (self._client = None in the except clause)
Resume_Forgets ==
    \E t \in Tasks, resp \in ConcResponses :
        /\ last.tasks[t].pc = "awaiting"
        /\ last' = [op |-> "resume",
                    tasks |-> [last.tasks EXCEPT ![t] = Resumed(last.tasks[t], resp)]]
        /\ self' = IF Resumed(last.tasks[t], resp).out.ok THEN self
                   ELSE [self EXCEPT !._client = 0]
        /\ UNCHANGED <<CLOB_AVAILABLE, private_key, caller>>

\* The upstream answer of an awaited request arrives; no attribute of self
\* is assigned on the way to the return.
Resume ==
    \E t \in Tasks, resp \in ConcResponses :
        /\ last.tasks[t].pc = "awaiting"
        /\ last' = [op |-> "resume",
                    tasks |-> [last.tasks EXCEPT ![t] = Resumed(last.tasks[t], resp)]]
        /\ UNCHANGED <<CLOB_AVAILABLE, private_key, self, caller>>

\* The caller takes the result; the coroutine may fetch again.
Return ==
    \E t \in Tasks :
        /\ last.tasks[t].pc = "done"
        /\ last' = [op |-> "return", tasks |-> [last.tasks EXCEPT ![t] = Idle]]
        /\ UNCHANGED <<CLOB_AVAILABLE, private_key, self, caller>>

ConcNext == Call \/ Resume \/ Return

ConcSpec == ConcInit /\ [][ConcNext]_vars

(***************************************************************************)
(* The route specification: the server answering requests.  Every request  *)
(* is run by a handler coroutine of its own, which builds and enters its   *)
(* own client, awaits the upstream answer, leaves the client awaiting       *)
(* aclose(), and answers; the event loop runs the other handlers while one  *)
(* awaits.  caller.handlers gives each handler's position and its client;   *)
(* no client is shared, and self stays the instance nobody enters.          *)
(***************************************************************************)
RouteResponses ==
    Failures \cup
    {Http200(b) : b \in {JArr(<<>>), JArr(<<MGood>>), MGood, JArr(<<TBuy, TSell>>),
                         JArr(<<JStr("no")>>), InvalidJson}}

\* min_size of GET /trades (ge=0) and threshold of GET /trades/whales (ge=100)
MinSizes == {0, WhaleThreshold}
Thresholds == {10000, WhaleThreshold}

\* The handler coroutines the event loop runs side by side
Handlers == {"A", "B"}

\* The limits of the requests
RouteLimits == {MaxLimit}

\* The requests the server is sent
Requests ==
    {[op |-> "GET /markets", market_id |-> "", limit |-> 0, min_size |-> 0]}
    \cup {[op |-> "GET /markets/{market_id}", market_id |-> m, limit |-> 0,
           min_size |-> 0] : m \in MarketIds}
    \cup {[op |-> "GET /markets/{market_id}/trades", market_id |-> m, limit |-> l,
           min_size |-> 0] : m \in MarketIds, l \in RouteLimits}
    \cup {[op |-> "GET /trades", market_id |-> "", limit |-> l, min_size |-> z] :
              l \in RouteLimits, z \in MinSizes}
    \cup {[op |-> "GET /trades/whales", market_id |-> "", limit |-> l,
           min_size |-> z] : l \in RouteLimits, z \in Thresholds}

\* A handler that runs no request.
NoRequest ==
    [pc |-> "idle", op |-> "", market_id |-> "", limit |-> 0, min_size |-> 0,
     client |-> PyNone, resp |-> NoResponse, sent |-> 0, response |-> PyNone]

\* The record kept of a request a route answered; client is the client the
\* handler built, as the handler left it.
Served(op, market_id, limit, min_size, resp, r) ==
    [op |-> op, pre |-> "Connected", market_id |-> market_id, limit |-> limit,
     min_size |-> min_size, resp |-> resp, out |-> Sends(r.sent, r.response),
     client |-> r.client]

RouteInit ==
    /\ CLOB_AVAILABLE \in BOOLEAN
    /\ private_key \in Keys
    /\ self = __init__("", CLOB_AVAILABLE, "ok")
    /\ caller = [handlers |-> [h \in Handlers |-> NoRequest]]
    /\ last = Obs("__init__", "None", "", 0, NoResponse, Sends(0, Ok(PyNone)))

\* async with PolymarketClient(...) as client: the two market routes pass no
\* private key, the three trade routes pass the configured one.
Entered(op, key, lib, handshake) ==
    __aenter__(__init__(IF op \in {"GET /markets", "GET /markets/{market_id}"}
                        THEN "" ELSE key, lib, handshake))

\* A request arrives: its handler builds a client, enters it, calls the fetch
\* and awaits the upstream answer.
Request ==
    \E h \in Handlers, q \in Requests, handshake \in Handshakes :
        LET client == Entered(q.op, private_key, CLOB_AVAILABLE, handshake)
        IN /\ caller.handlers[h].pc = "idle"
           /\ caller' = [caller EXCEPT !.handlers[h] =
                             [NoRequest EXCEPT !.pc = "awaiting", !.op = q.op,
                                               !.market_id = q.market_id,
                                               !.limit = q.limit,
                                               !.min_size = q.min_size,
                                               !.client = client]]
           /\ last' = Suspended("handler", client)
           /\ UNCHANGED <<CLOB_AVAILABLE, private_key, self>>

\* The upstream answer resp of the handler h arrives: the handler runs on to
\* the await of aclose(), with r what the route did.
Leaving(h, resp, r) ==
    /\ caller' = [caller EXCEPT !.handlers[h] =
                      [@ EXCEPT !.pc = "closing", !.client = r.client, !.resp = resp,
                                !.sent = r.sent, !.response = r.response]]
    /\ last' = Suspended("handler", caller.handlers[h].client)
    /\ UNCHANGED <<CLOB_AVAILABLE, private_key, self>>

\* The handlers awaiting the upstream answer of a request to the route op
Awaiting(op) ==
    {h \in Handlers : caller.handlers[h].pc = "awaiting" /\ caller.handlers[h].op = op}

RouteGetMarkets ==
    \E h \in Awaiting("GET /markets"), resp \in RouteResponses :
        Leaving(h, resp, route_get_markets(caller.handlers[h].client, resp))

RouteGetMarket ==
    \E h \in Awaiting("GET /markets/{market_id}"), resp \in RouteResponses :
        Leaving(h, resp, route_get_market(caller.handlers[h].client,
                                          caller.handlers[h].market_id, resp))

RouteGetMarketTrades ==
    \E h \in Awaiting("GET /markets/{market_id}/trades"), resp \in RouteResponses :
        Leaving(h, resp, route_get_market_trades(caller.handlers[h].client,
                                                 caller.handlers[h].market_id,
                                                 caller.handlers[h].limit, resp))

RouteGetRecentTrades ==
    \E h \in Awaiting("GET /trades"), resp \in RouteResponses :
        Leaving(h, resp, route_get_recent_trades(caller.handlers[h].client,
                                                 caller.handlers[h].limit,
                                                 caller.handlers[h].min_size, resp))

RouteGetWhaleTrades ==
    \E h \in Awaiting("GET /trades/whales"), resp \in RouteResponses :
        Leaving(h, resp, route_get_whale_trades(caller.handlers[h].client,
                                                caller.handlers[h].limit,
                                                caller.handlers[h].min_size, resp))

\* aclose() returns: the executor is shut down, the except clause of the
\* route runs and the request is answered; the client is left behind, closed.
Answer ==
    \E h \in Handlers :
        LET q == caller.handlers[h]
        IN /\ q.pc = "closing"
           /\ caller' = [caller EXCEPT !.handlers[h] = NoRequest]
           /\ last' = Served(q.op, q.market_id, q.limit, q.min_size, q.resp,
                             [q EXCEPT !.client = shutdown(@)])
           /\ UNCHANGED <<CLOB_AVAILABLE, private_key, self>>

RouteNext ==
    \/ Request
    \/ RouteGetMarkets
    \/ RouteGetMarket
    \/ RouteGetMarketTrades
    \/ RouteGetRecentTrades
    \/ RouteGetWhaleTrades
    \/ Answer

RouteSpec == RouteInit /\ [][RouteNext]_vars


(***************************************************************************)
(* Properties.                                                             *)
(***************************************************************************)
FetchOps == {"get_markets", "get_market", "get_recent_trades", "get_market_trades"}
RouteOps ==
    {"GET /markets", "GET /markets/{market_id}", "GET /markets/{market_id}/trades",
     "GET /trades", "GET /trades/whales"}

RaisedNotInitialized(out) ==
    /\ ~out.ok
    /\ out.exc = [type |-> PolymarketClientError, msg |-> NotInitialized]

UpstreamFailed(resp) ==
    resp.net = "fail" \/ (resp.net = "ok" /\ (resp.status < 200 \/ resp.status >= 300))

\* C1: every fetch operation invoked on a session that has been closed fails
\* with the client's not-initialized error, and with no other outcome.
C1_ClosedFetchFailsNotInitialized ==
    (last.op \in FetchOps /\ last.pre = "Closed") => RaisedNotInitialized(last.out)

\* C2: on a Connected session get_market returns None only when the upstream
\* answered not-found (404); any other upstream failure raises the client's
\* error.
C2_NoneOnlyOnUpstreamNotFound ==
    (last.op = "get_market" /\ last.pre = "Connected") =>
        /\ (last.out.ok /\ last.out.v = PyNone) =>
               (last.resp.net = "ok" /\ last.resp.status = 404)
        /\ (UpstreamFailed(last.resp) /\ last.resp.status # 404) =>
               (~last.out.ok /\ last.out.exc.type = PolymarketClientError)

RECURSIVE NormalizedMarkets(_)
\* the elements of an upstream list that normalize, in upstream order
NormalizedMarkets(items) ==
    IF items = <<>> THEN <<>>
    ELSE LET m == _parse_market(Head(items))
         IN (IF m.ok THEN <<m.v>> ELSE <<>>) \o NormalizedMarkets(Tail(items))

\* C3: for every upstream list of elements of any JSON type, get_markets on a
\* Connected session does not raise and returns exactly the elements that
\* normalize, in upstream order.
C3_MalformedElementsDropped ==
    (/\ last.op = "get_markets"
     /\ last.pre = "Connected"
     /\ last.resp.net = "ok"
     /\ last.resp.status = 200
     /\ last.resp.body.k = "arr") =>
        /\ last.out.ok
        /\ last.out.v = NormalizedMarkets(last.resp.body.items)

BuyTokens == {JStr("BUY"), JStr("buy"), JStr("Buy")}
SellTokens == {JStr("SELL"), JStr("sell"), JStr("Sell")}

\* C4 as stated: a normalized trade has side SELL when the side token is SELL
\* in any casing, and BUY for every other token and for a missing side field.
C4_OtherTokensYieldBuy ==
    (last.op = "_parse_trade" /\ last.out.ok) =>
        LET f == last.resp.body.f
        IN last.out.v.side = IF "side" \in DOMAIN f /\ f["side"] \in SellTokens
                             THEN "SELL" ELSE "BUY"

\* C4 as amended: a normalized trade has side BUY when the side token is BUY
\* in any casing or the side field is missing, and SELL for every other token
\* (SELL in any casing, an unrecognized token, an empty token, a null, a
\* number).
C4_OtherTokensYieldSell ==
    (last.op = "_parse_trade" /\ last.out.ok) =>
        LET f == last.resp.body.f
        IN last.out.v.side = IF "side" \notin DOMAIN f \/ f["side"] \in BuyTokens
                             THEN "BUY" ELSE "SELL"

\* C4 witness: a trade with the unrecognized token "hold" was normalized.
C4_UnrecognizedTokenNormalized ==
    /\ last.op = "_parse_trade"
    /\ last.out.ok
    /\ "side" \in DOMAIN last.resp.body.f
    /\ last.resp.body.f["side"] = JStr("hold")
    /\ last.out.v.side = "SELL"

\* The range invariants the claim gives a Market.
MarketInRange(m) ==
    /\ \A i \in 1..Len(m.outcome_prices) :
           m.outcome_prices[i] >= 0 /\ m.outcome_prices[i] <= 100
    /\ m.volume >= 0
    /\ m.liquidity >= 0

\* C5: every Market returned by get_markets or get_market has all its outcome
\* prices in [0,1] and volume and liquidity >= 0.
C5_MarketsInRange ==
    /\ (last.op = "get_markets" /\ last.out.ok) =>
           \A i \in 1..Len(last.out.v) : MarketInRange(last.out.v[i])
    /\ (last.op = "get_market" /\ last.out.ok /\ last.out.v # PyNone) =>
           MarketInRange(last.out.v)

\* C6 as stated: a session that has reached Closed never becomes Connected
\* again, and a Connected session never returns to Unconnected.
C6_LifecycleOnlyForward ==
    [][/\ LifeCycle(self) = "Closed" => LifeCycle(self') # "Connected"
       /\ LifeCycle(self) = "Connected" => LifeCycle(self') # "Unconnected"]_vars

\* C6 as amended: a session that has left Unconnected never returns to it, and
\* a Closed session changes state only by being entered again, which makes it
\* Connected.
C6_NeverBackToUnconnected ==
    [][/\ LifeCycle(self) # "Unconnected" => LifeCycle(self') # "Unconnected"
       /\ (LifeCycle(self) = "Closed" /\ LifeCycle(self') # "Closed") =>
              (last'.op = "__aenter__" /\ LifeCycle(self') = "Connected")]_vars

\* C6 witness: a session entered a second time after its exit served a fetch.
C6_ReenteredSessionServes ==
    /\ LifeCycle(self) = "Connected"
    /\ self._client = 2
    /\ self.transports[1] = "closed"
    /\ last.op = "get_markets"
    /\ last.out.ok
    /\ Len(last.out.v) = 1

\* C7: every fetch operation invoked on a session never connected fails with
\* the not-initialized error, issues no upstream request and returns nothing.
C7_UnconnectedFetchFailsNotInitialized ==
    (last.op \in FetchOps /\ last.pre = "Unconnected") =>
        (RaisedNotInitialized(last.out) /\ last.out.sent = 0)

\* C8: on a Connected session holding no authenticated client,
\* get_market_trades returns an empty sequence and does not raise, whatever
\* the upstream trade endpoint answers.
C8_UnauthenticatedTradesEmpty ==
    (/\ last.op = "get_market_trades"
     /\ last.pre = "Connected"
     /\ ~self._clob_client) =>
        (last.out.ok /\ last.out.v = <<>>)


\* C9: whenever the upstream request of a route fails (transport failure or a
\* non-2xx status), the route answers 502.  The upstream not-found answer to
\* the single-market fetch is left aside: that one is the not-found result.
C9_UpstreamFailureAnswers502 ==
    (/\ last.op \in RouteOps
     /\ UpstreamFailed(last.resp)
     /\ ~(last.op = "GET /markets/{market_id}" /\ last.resp.status = 404)) =>
        last.out.status = 502

\* C10: get_markets, get_recent_trades and get_market_trades on a Connected
\* session either return a list or raise PolymarketClientError; no other
\* exception type escapes.
C10_SingleTypedError ==
    (/\ last.op \in {"get_markets", "get_recent_trades", "get_market_trades"}
     /\ last.pre = "Connected") =>
        (last.out.ok \/ last.out.exc.type = PolymarketClientError)

\* The required fields of Market: id, the condition identifier under either
\* spelling, and question.
HasRequired(e) ==
    /\ Has(e, "id")
    /\ Has(e, "conditionId") \/ Has(e, "condition_id")
    /\ Has(e, "question")

\* C11: for every upstream list of market objects, get_markets on a Connected
\* session returns the normalized elements that carry every required field,
\* in upstream order; an element missing id, the condition identifier or
\* question is dropped.
C11_MissingRequiredDropped ==
    (/\ last.op = "get_markets"
     /\ last.pre = "Connected"
     /\ last.resp.net = "ok"
     /\ last.resp.status = 200
     /\ last.resp.body.k = "arr"
     /\ \A i \in 1..Len(last.resp.body.items) : last.resp.body.items[i].k = "obj") =>
        /\ last.out.ok
        /\ last.out.v = NormalizedMarkets(SelectSeq(last.resp.body.items, HasRequired))

RECURSIVE NormalizedTrades(_)
\* the elements of an upstream list that normalize, in upstream order
NormalizedTrades(items) ==
    IF items = <<>> THEN <<>>
    ELSE LET t == _parse_trade(Head(items))
         IN (IF t.ok THEN <<t.v>> ELSE <<>>) \o NormalizedTrades(Tail(items))

\* the first n elements of a list
FirstN(items, n) == SubSeq(items, 1, IF n < Len(items) THEN n ELSE Len(items))

\* C12: for every limit >= 1 and every upstream trade list, get_recent_trades
\* on a Connected session returns at most limit trades: the elements that
\* normalize among the first limit upstream elements, in upstream order.
C12_FirstLimitNormalized ==
    (/\ last.op = "get_recent_trades"
     /\ last.limit >= 1
     /\ last.pre = "Connected"
     /\ last.resp.net = "ok"
     /\ last.resp.status = 200
     /\ last.resp.body.k = "arr") =>
        /\ last.out.ok
        /\ Len(last.out.v) <= last.limit
        /\ last.out.v = NormalizedTrades(FirstN(last.resp.body.items, last.limit))

\* C12 witness: the upstream list was longer than limit, an element among the
\* first limit was dropped, and the element right after them, which would
\* have normalized, was not taken in its place.
C12_DroppedNotReplaced ==
    /\ last.op = "get_recent_trades"
    /\ last.limit >= 1
    /\ last.pre = "Connected"
    /\ last.resp.net = "ok"
    /\ last.resp.status = 200
    /\ last.resp.body.k = "arr"
    /\ Len(last.resp.body.items) > last.limit
    /\ _parse_trade(last.resp.body.items[last.limit + 1]).ok
    /\ last.out.ok
    /\ Len(last.out.v) < last.limit

\* Timestamps that cannot be interpreted: text that is no date, values of a
\* wrong type, and numbers outside the years 1..9999.
Uninterpretable ==
    {JStr("oops"), JStr("7"), JArr(<<JNum(100)>>), JObj([error |-> JStr("no")]),
     JDec(1, 12), JDec(1, 15), JDec(3, 11), JDec(-1, 11),
     JDec(1, 20), JDec(1, 30), JDec(-1, 20)}

\* C17: a trade payload whose timestamp cannot be interpreted normalizes to a
\* Trade whose timestamp is the current processing time.
C17_BadTimestampFallsBack ==
    (/\ last.op = "_parse_trade"
     /\ \E ts \in Uninterpretable : last.resp.body = TradeAt(ts)) =>
        (last.out.ok /\ last.out.v.timestamp = Now)

\* The instant s seconds after the epoch, s = m * 10^e.
Instant(m, e) == [src |-> "epoch", at |-> "", m |-> m, e |-> e]

\* Millisecond timestamps of the universe and the seconds value of each.
MillisAsSeconds ==
    (JDec(17, 11) :> JDec(17, 8)) @@
    (JDec(1700000001, 3) :> JDec(1700000001, 0)) @@
    (JDec(2, 12) :> JDec(2, 9)) @@
    (JDec(1, 15) :> JDec(1, 12))

\* Timestamps of the universe that are at most 10^12, and their instants.
SecondsInstants ==
    (JDec(17, 8) :> Instant(17, 8)) @@
    (JDec(1700000001, 0) :> Instant(1700000001, 0)) @@
    (JDec(2, 9) :> Instant(2, 9)) @@
    (JNum(150) :> Instant(15, -1)) @@
    (JNum(100) :> Instant(1, 0))

\* C18: a numeric timestamp above 10^12 normalizes to the same instant as its
\* seconds value t/1000 (1700000000000 to the instant of 1700000000); a
\* numeric timestamp of at most 10^12 is read as seconds.
C18_MillisecondsAsSeconds ==
    (last.op = "_parse_trade" /\ last.out.ok) =>
        /\ \A ms \in DOMAIN MillisAsSeconds :
               last.resp.body = TradeAt(ms) =>
                   last.out.v.timestamp =
                       _parse_trade(TradeAt(MillisAsSeconds[ms])).v.timestamp
        /\ \A t \in DOMAIN SecondsInstants :
               last.resp.body = TradeAt(t) => last.out.v.timestamp = SecondsInstants[t]
        /\ last.resp.body = TradeAt(JDec(17, 11)) =>
               last.out.v.timestamp = Instant(17, 8)

\* C18 witness: the timestamp 1700000000000 was normalized to the instant
\* 1700000000 seconds after the epoch.
C18_MillisecondsNormalized ==
    /\ last.op = "_parse_trade"
    /\ last.resp.body = TradeAt(JDec(17, 11))
    /\ last.out.ok
    /\ last.out.v.timestamp = Instant(17, 8)

\* C19: constructing a Trade or an Outcome succeeds when its price is in
\* [0,1], both bounds included, and the size of the Trade is not negative;
\* it fails with a validation error otherwise, so no normalized Trade has a
\* price outside [0,1] or a negative size.
C19_PriceAndSizeValidated ==
    /\ last.op = "Trade" =>
           LET price == last.resp.body.f["price"].n
               size == last.resp.body.f["size"].n
           IN IF price >= 0 /\ price <= 100 /\ size >= 0
              THEN last.out.ok /\ last.out.v.price = price /\ last.out.v.size = size
              ELSE ~last.out.ok /\ last.out.exc.type = "ValidationError"
    /\ last.op = "Outcome" =>
           LET price == last.resp.body.f["price"].n
           IN IF price >= 0 /\ price <= 100
              THEN last.out.ok /\ last.out.v.price = price
              ELSE ~last.out.ok /\ last.out.exc.type = "ValidationError"
    /\ (last.op = "_parse_trade" /\ last.out.ok) =>
           /\ last.out.v.price >= 0
           /\ last.out.v.price <= 100
           /\ last.out.v.size >= 0

\* C19 witness: a Trade was constructed with the price 1.0, the upper bound.
C19_BoundaryPriceAccepted ==
    /\ last.op = "Trade"
    /\ last.resp.body.f["price"].n = 100
    /\ last.out.ok
    /\ last.out.v.price = 100

\* C13 as stated: no handshake, and no call to the signing library, has
\* happened while the session is still Unconnected.
C13_NoHandshakeWhileUnconnected ==
    LifeCycle(self) = "Unconnected" => (self.clob_calls = <<>> /\ self.handshakes = 0)

\* C13 as amended: the handshake is made by the constructor, if and only if a
\* private key was supplied and the signing library is available; entering
\* the session, and every later operation, makes no call to the library.
C13_HandshakeAtConstruction ==
    /\ []((self.clob_calls # <<>>) <=> (private_key # "" /\ CLOB_AVAILABLE))
    /\ [][/\ self'.clob_calls = self.clob_calls
          /\ self'.handshakes = self.handshakes
          /\ self'._clob_client = self._clob_client]_vars

\* C13 witness: a client built with a private key was entered, and it holds
\* the authenticated client of the one handshake its constructor made.
C13_EnteredAfterHandshake ==
    /\ last.op = "__aenter__"
    /\ last.pre = "Unconnected"
    /\ LifeCycle(self) = "Connected"
    /\ private_key # ""
    /\ self._clob_client
    /\ self.handshakes = 1

\* The session as it would be had no private key been given.
Keyless(s) == [s EXCEPT !._clob_client = FALSE, !.clob_calls = <<>>, !.handshakes = 0]

\* C14: when the handshake fails the session holds no authenticated client (a
\* held client has had its credentials set), the session is Connected by
\* entering it as any other, and get_markets and get_market end as they do
\* on a session built without a private key.
C14_FailedHandshakeDegrades ==
    /\ self._clob_client => self.clob_calls = ClobCalls("ok")
    /\ (self.clob_calls # ClobCalls("ok") /\ last.op = "__aenter__") =>
           LifeCycle(self) = "Connected"
    /\ (self.clob_calls # ClobCalls("ok") /\ last.op = "get_markets") =>
           last.out = get_markets(Keyless(last.at), last.resp)
    /\ (self.clob_calls # ClobCalls("ok") /\ last.op = "get_market") =>
           last.out = get_market(Keyless(last.at), last.market_id, last.resp)

\* C14 witness: a session whose credential derivation raised is Connected,
\* holds no authenticated client, and returned a market.
C14_DegradedSessionServes ==
    /\ private_key # ""
    /\ self.clob_calls = ClobCalls("derive_raises")
    /\ ~self._clob_client
    /\ LifeCycle(self) = "Connected"
    /\ last.op = "get_markets"
    /\ last.out.ok
    /\ Len(last.out.v) = 1

\* C15: once __aexit__ has completed, on any exit path, the HTTP transport
\* that was allocated on entering the block it leaves is closed and the worker
\* pool is shut down.
C15_ExitReleasesTransport ==
    (last.op = "__aexit__" /\ last.out.ok /\ last.scope # 0) =>
        /\ self.transports[last.scope] = "closed"
        /\ self._executor = "shutdown"

\* C16: every fetch operation on a Connected session issues exactly one
\* upstream request, whether the request succeeds, is answered with a 4xx or
\* 5xx status, or fails at the transport.
C16_ExactlyOneRequest ==
    (last.op \in FetchOps /\ last.pre = "Connected") => last.out.sent = 1

\* C16 witness: a fetch whose request failed at the transport sent it once.
C16_FailedRequestSentOnce ==
    /\ last.op = "get_markets"
    /\ last.pre = "Connected"
    /\ last.resp = TransportFailure
    /\ ~last.out.ok
    /\ last.out.sent = 1

\* C20: is_whale_trade is true exactly when size >= 500.0, and GET
\* /trades/whales with its default threshold answers exactly the fetched
\* trades that is_whale_trade classifies as large, in fetched order.
C20_WhaleClassification ==
    (/\ last.op = "GET /trades/whales"
     /\ last.min_size = WhaleThreshold
     /\ last.resp.net = "ok"
     /\ last.resp.status = 200
     /\ last.resp.body.k = "arr") =>
        LET fetched == NormalizedTrades(FirstN(last.resp.body.items, last.limit))
        IN /\ last.out.status = 200
           /\ last.out.body = SelectSeq(fetched, is_whale_trade)
           /\ \A i \in 1..Len(fetched) :
                  is_whale_trade(fetched[i]) <=> fetched[i].size >= 50000

\* C20 witness: of a trade of size 500.0 and one of size 499.99, the whale
\* view with the default threshold answered the first only.
C20_BoundaryTradeIsWhale ==
    /\ last.op = "GET /trades/whales"
    /\ last.min_size = WhaleThreshold
    /\ last.limit = 2
    /\ last.resp = Http200(JArr(<<TBuy, TSell>>))
    /\ last.out.status = 200
    /\ Len(last.out.body) = 1
    /\ last.out.body[1].size = 50000

\* The number a JSON number or a numeric text denotes.
NumberOf(v) == IF v.k = "str" THEN Numerals[v.s] ELSE v.n

RECURSIVE Numbers(_)
Numbers(items) ==
    IF items = <<>> THEN <<>> ELSE <<NumberOf(Head(items))>> \o Numbers(Tail(items))

\* An outcome object that carries an embedded price.
Priced(o) == o.k = "obj" /\ "price" \in DOMAIN o.f

RECURSIVE PricesOf(_)
PricesOf(items) ==
    IF items = <<>> THEN <<>>
    ELSE <<NumberOf(Head(items).f["price"])>> \o PricesOf(Tail(items))

\* The payload's outcomes field is a native list.
OutcomesListed(f) == "outcomes" \in DOMAIN f /\ f["outcomes"].k = "arr"

\* Neither path yields price data: outcomePrices is absent or null, and the
\* embedded path (outcomePrices absent, outcomes a list) finds no priced object.
NoPriceData(f) ==
    /\ "outcomePrices" \in DOMAIN f => f["outcomePrices"] = JNull
    /\ ("outcomePrices" \notin DOMAIN f /\ OutcomesListed(f)) =>
           SelectSeq(f["outcomes"].items, Priced) = <<>>

\* C23: outcome prices are derived in this order.  A payload with
\* outcomePrices has it decoded when it is a JSON-encoded string and each
\* element converted to a number in order; with outcomePrices absent and
\* outcomes a list, the embedded prices of the outcome objects that carry one
\* are collected in order; when neither path yields data, outcome_prices is
\* empty and the element is not failed.
C23_OutcomePricesDerived ==
    (last.op = "_parse_market" /\ last.resp.body \in OutcomeMarkets) =>
        LET f == last.resp.body.f
            prices == f["outcomePrices"]
        IN /\ (/\ last.out.ok
               /\ "outcomePrices" \in DOMAIN f
               /\ prices # JNull) =>
                  last.out.v.outcome_prices =
                      Numbers(IF prices.k = "str" THEN JsonArrayTexts[prices.s].items
                              ELSE prices.items)
           /\ (/\ last.out.ok
               /\ "outcomePrices" \notin DOMAIN f
               /\ OutcomesListed(f)) =>
                  last.out.v.outcome_prices =
                      PricesOf(SelectSeq(f["outcomes"].items, Priced))
           /\ NoPriceData(f) =>
                  /\ last.out.ok
                  /\ last.out.v.outcome_prices = <<>>

\* The shapes of outcomes that the labels are taken from: a JSON-encoded
\* list of texts, or a native non-empty list of texts.
LabelTexts == {s \in DOMAIN JsonArrayTexts : IsListOfStr(JsonArrayTexts[s])}
CarriesLabels(v) ==
    \/ v.k = "str" /\ v.s \in LabelTexts
    \/ v.k = "arr" /\ v.items # <<>> /\ IsListOfStr(v)

\* C24: outcome labels are the decoded list when outcomes is a JSON-encoded
\* string, the list itself when it is a native list of text labels, and in
\* every other case (absent, empty list, list of objects, null, a string that
\* is not valid JSON or does not decode to a list of labels) the default
\* ["Yes", "No"], and the element is not failed.
C24_LabelsOrDefault ==
    (/\ last.op = "_parse_market"
     /\ last.resp.body \in OutcomeMarkets
     /\ "outcomePrices" \notin DOMAIN last.resp.body.f) =>
        LET f == last.resp.body.f
            labelled == "outcomes" \in DOMAIN f /\ CarriesLabels(f["outcomes"])
            raw == f["outcomes"]
        IN /\ last.out.ok
           /\ last.out.v.outcomes =
                  IF ~labelled THEN <<"Yes", "No">>
                  ELSE Texts(IF raw.k = "str" THEN JsonArrayTexts[raw.s].items
                             ELSE raw.items)

\* str(v) of a field value that is a text or a null
TextOf(v) == IF v.k = "str" THEN v.s ELSE "None"

\* The field taken from the first spelling if the payload has it, else from
\* the second, else the empty string.
Spelled(f, first, second) ==
    IF first \in DOMAIN f THEN TextOf(f[first])
    ELSE IF second \in DOMAIN f THEN TextOf(f[second])
    ELSE ""

\* C25: fields with two upstream spellings are resolved first-match-wins.
\* The market condition id is conditionId if present, else condition_id; the
\* trade market reference is market if present, else market_id; trade asset,
\* maker and taker are the snake_case spelling if present, else the camelCase
\* one; with neither spelling present the field is the empty string.
C25_FirstSpellingWins ==
    /\ (last.op = "_parse_market" /\ last.resp.body \in SpelledMarkets) =>
        /\ last.out.ok
        /\ last.out.v.condition_id =
               Spelled(last.resp.body.f, "conditionId", "condition_id")
    /\ (last.op = "_parse_trade" /\ last.resp.body \in SpelledTrades) =>
        LET f == last.resp.body.f
        IN /\ last.out.ok
           /\ last.out.v.market_id = Spelled(f, "market", "market_id")
           /\ last.out.v.asset_id = Spelled(f, "asset_id", "assetId")
           /\ last.out.v.maker_address = Spelled(f, "maker_address", "makerAddress")
           /\ last.out.v.taker_address = Spelled(f, "taker_address", "takerAddress")

\* C25 witness: a trade carrying both asset_id and assetId was normalized
\* with the asset of the snake_case spelling.
C25_BothSpellingsPresent ==
    /\ last.op = "_parse_trade"
    /\ last.resp.body.k = "obj"
    /\ {"asset_id", "assetId"} \subseteq DOMAIN last.resp.body.f
    /\ last.resp.body.f["asset_id"] = JStr("first")
    /\ last.resp.body.f["assetId"] = JStr("second")
    /\ last.out.ok
    /\ last.out.v.asset_id = "first"

\* The amount a numeric field denotes: zero when the field is absent or null.
Amount(f, key) ==
    IF key \notin DOMAIN f \/ f[key] = JNull THEN 0 ELSE NumberOf(f[key])

\* C26: a numeric field that is null or omitted is normalized to zero and
\* does not fail the element (market volume and liquidity, trade price and
\* size); a number and the numeric string of the same number normalize to
\* the same value.
C26_NullNumericsAreZero ==
    /\ (last.op = "_parse_market" /\ last.resp.body \in NumericMarkets) =>
        /\ last.out.ok
        /\ last.out.v.volume = Amount(last.resp.body.f, "volume")
        /\ last.out.v.liquidity = Amount(last.resp.body.f, "liquidity")
    /\ (last.op = "_parse_trade" /\ last.resp.body \in NumericTrades) =>
        /\ last.out.ok
        /\ last.out.v.price = Amount(last.resp.body.f, "price")
        /\ last.out.v.size = Amount(last.resp.body.f, "size")

\* C26 witness: a trade whose price and size are both null was normalized
\* with price 0 and size 0.
C26_NullTradeNormalized ==
    /\ last.op = "_parse_trade"
    /\ last.resp.body \in NumericTrades
    /\ {"price", "size"} \subseteq DOMAIN last.resp.body.f
    /\ last.resp.body.f["price"] = JNull
    /\ last.resp.body.f["size"] = JNull
    /\ last.out.ok
    /\ last.out.v.price = 0
    /\ last.out.v.size = 0

\* C21: Market and Trade values are immutable after construction: whatever
\* is done next (a fetch, an attribute assignment by the caller), every value
\* the caller holds keeps every one of its fields.
C21_HeldValuesNeverChange ==
    [][\A i \in 1..Len(caller.held) :
           /\ i <= Len(caller'.held)
           /\ caller'.held[i] = caller.held[i]]_vars

\* C22: a fetch writes no session state, so concurrent fetches on one
\* Connected session do not interfere: the session stays Connected with the
\* same transport handle, base URL and authenticated-client handle, and every
\* fetch that has ended, however the others were interleaved with it, ended
\* as the same fetch run alone on the Connected session against the same
\* upstream answer.
C22_FetchesDoNotInterfere ==
    /\ LifeCycle(self) = "Connected"
    /\ self._client = 1
    /\ self.base_url = "https://gamma-api.polymarket.com"
    /\ self._clob_client = FALSE
    /\ \A t \in Tasks :
           last.tasks[t].pc = "done" =>
               last.tasks[t].out =
                   Run(last.tasks[t].op, __aenter__(__init__("", FALSE, "ok")),
                       last.tasks[t].market_id, last.tasks[t].limit,
                       last.tasks[t].resp)

\* C22 witness: two fetches that overlapped have both ended, one with
\* markets and the other with trades.
C22_OverlappedFetchesEnded ==
    /\ \A t \in Tasks : last.tasks[t].pc = "done" /\ last.tasks[t].overlapped
    /\ last.tasks["a"].op = "get_markets"
    /\ last.tasks["a"].out.ok
    /\ Len(last.tasks["a"].out.v) = 1
    /\ last.tasks["b"].op = "get_recent_trades"
    /\ last.tasks["b"].out.ok
    /\ Len(last.tasks["b"].out.v) = 2

\* The session s as it would be had its client been constructed as built was:
\* the same transports and lifecycle, the other's authenticated client.
Twin(s, built) ==
    [s EXCEPT !._clob_client = built._clob_client,
              !.clob_calls = built.clob_calls,
              !.handshakes = built.handshakes]

\* The texts a Market or Trade value carries.
ValueTexts(v) ==
    IF "question" \in DOMAIN v
    THEN {v.id, v.condition_id, v.question, v.description, v.slug}
         \cup {v.outcomes[i] : i \in 1..Len(v.outcomes)}
    ELSE {v.id, v.market_id, v.asset_id, v.outcome, v.maker_address, v.taker_address}

\* The texts the outcome of a fetch carries, returned or raised.
OutTexts(op, out) ==
    IF ~out.ok THEN {out.exc.type, out.exc.msg}
    ELSE IF op = "get_market"
    THEN (IF out.v = PyNone THEN {} ELSE ValueTexts(out.v))
    ELSE UNION {ValueTexts(out.v[i]) : i \in 1..Len(out.v)}

\* C27: the results of the fetch operations do not depend on the private
\* key.  Whatever the state of the session it was called on, a fetch ends
\* exactly as it would on the session that differs only in the private key supplied (none, this one,
\* another), in the signing library being present and in how the handshake
\* went; and no text of the result or of the error is the private key.
C27_ResultsIgnoreKey ==
    last.op \in FetchOps =>
        /\ \A key \in Keys \cup {"0xother"}, lib \in BOOLEAN, handshake \in Handshakes :
               Run(last.op, Twin(last.at, __init__(key, lib, handshake)),
                   last.market_id, last.limit, last.resp) = last.out
        /\ private_key # "" => private_key \notin OutTexts(last.op, last.out)

\* C27 witness: a session holding an authenticated client built from a
\* private key fetched a market and got it.
C27_AuthenticatedSessionServed ==
    /\ last.op = "get_market"
    /\ last.pre = "Connected"
    /\ private_key # ""
    /\ self._clob_client
    /\ last.resp = Http200(MGood)
    /\ last.out.ok
    /\ last.out.v # PyNone
    /\ last.out.v.id = "m1"

=============================================================================
